---- MODULE Spec2Model ----
(***************************************************************************)
(* A model of the Cumulus Python tools (python/cumulus): the local         *)
(* database operations of LocalDatabase / Database, the backend garbage    *)
(* collector cmd_garbage_collect and the object store CumulusStore.        *)
(*                                                                         *)
(* Each component has its own group of variables and its own               *)
(* specification (SpecDB, SpecGC, SpecStore); a specification leaves the   *)
(* variables of the other components at their idle values.                 *)
(***************************************************************************)
EXTENDS Integers, Sequences, FiniteSets, TLC

VARIABLES
    \* ---- local database (sqlite tables), python/cumulus/__init__.py
    snapshots,              \* rows of table snapshots
    segment_utilization,    \* rows of table segment_utilization
    segments,               \* rows of table segments
    block_index,            \* rows of table block_index
    subblock_signatures,    \* rows of table subblock_signatures
    dbOp,                   \* the database method that ran last
    gcAgain,                \* garbage_collect ran directly after garbage_collect
    dbDeleted,              \* per table: did the last method delete a row
    \* ---- storage backend as cmd_garbage_collect sees it, cmd_util.py
    backend,                \* the files on the backend
    content,                \* descriptor file -> its Format and Segments
    gc,                     \* what the last cmd_garbage_collect run did
    \* ---- CumulusStore and the segments it reads, python/cumulus/__init__.py
    stored,                 \* segment name -> its tar entries, or NotStored
    cache,                  \* segment name -> files of its cache directory
    _lru_list,              \* CumulusStore._lru_list
    accessed_segments,      \* the module's accessed_segments
    fetched,                \* did the last get call the backend
    req,                    \* the reference string of the last get
    res,                    \* what the last get returned or raised
    hist,                   \* the loads of the store so far, for the claims
    \* ---- the other components, one record each
    md,                     \* a traversal by read_metadata or MetadataItem.data
    ver,                    \* the last call of check_version
    rs,                     \* a run of cmd_restore_snapshot
    sp,                     \* a SearchPath and the backend it searches
    cl,                     \* the local database as the segment cleaner sees it
    fd,                     \* a run of CumulusStore.filter_data
    ps,                     \* a run of the generator parse
    pr,                     \* a run of prune_localdb
    uri                     \* a byte string through uri_encode_raw and back

dbVars == <<snapshots, segment_utilization, segments, block_index,
            subblock_signatures, dbOp, gcAgain, dbDeleted>>

gcVars == <<backend, content, gc>>

storeVars == <<stored, cache, _lru_list, accessed_segments, fetched, req, res>>

vars == <<dbVars, gcVars, storeVars, hist, md, ver, rs, sp, cl, fd, ps, pr, uri>>

\* What the methods of one component leave alone.
notDB == <<gcVars, storeVars, hist, md, ver, rs, sp, cl, fd, ps, pr, uri>>
notGC == <<dbVars, storeVars, hist, md, ver, rs, sp, cl, fd, ps, pr, uri>>
notStore == <<dbVars, gcVars, md, ver, rs, sp, cl, fd, ps, pr, uri>>
notMd == <<dbVars, gcVars, storeVars, hist, ver, rs, sp, cl, fd, ps, pr, uri>>
notVer == <<dbVars, gcVars, storeVars, hist, md, rs, sp, cl, fd, ps, pr, uri>>
notRs == <<dbVars, gcVars, storeVars, hist, md, ver, sp, cl, fd, ps, pr, uri>>
notSp == <<dbVars, gcVars, storeVars, hist, md, ver, rs, cl, fd, ps, pr, uri>>
notCl == <<dbVars, gcVars, storeVars, hist, md, ver, rs, sp, fd, ps, pr, uri>>
notFd == <<dbVars, gcVars, storeVars, hist, md, ver, rs, sp, cl, ps, pr, uri>>
notPs == <<dbVars, gcVars, storeVars, hist, md, ver, rs, sp, cl, fd, pr, uri>>
notPr == <<dbVars, gcVars, storeVars, hist, md, ver, rs, sp, cl, fd, ps, uri>>
notUri == <<dbVars, gcVars, storeVars, hist, md, ver, rs, sp, cl, fd, ps, pr>>

----------------------------------------------------------------------------
(* Bounds of the model.                                                    *)

MaxSnap == 2
MaxSeg == 2
MaxBlock == 1
MaxSnapName == 1
MaxSegName == 2
MaxLen == 2
DigestRange == 3
MaxEvicted == 3
MaxItems == 3
MaxComponents == 3
MaxRestoreItems == 2
MaxEntries == 3
MaxCleanSegs == 2
MaxCleanBlocks == 3

SnapshotIds == 1..MaxSnap
SegmentIds == 1..MaxSeg
BlockIds == 1..MaxBlock
Schemes == {"daily", "weekly"}

\* The scheme of the snapshot with id i, and the segment that holds block b.
SchemeOf(i) == IF i % 2 = 1 THEN "daily" ELSE "weekly"
SegmentOfBlock(b) == ((b - 1) % MaxSeg) + 1

\* The segments a backup of snapshot i can have used: the one written
\* with it and the one written with the snapshot before it.
SegmentsOfSnapshot(i) == {((i - 1) % MaxSeg) + 1, (i % MaxSeg) + 1}

----------------------------------------------------------------------------
(* The local database.  A table is the set of its rows; a row is a record  *)
(* of the columns the modelled statements read.                            *)

SnapshotRows ==
    [snapshotid : SnapshotIds, scheme : Schemes, name : SnapshotIds]

UtilizationRows == [snapshotid : SnapshotIds, segmentid : SegmentIds]

SegmentRows == [segmentid : SegmentIds]

BlockRows == [blockid : BlockIds, segmentid : SegmentIds]

SignatureRows == [blockid : BlockIds]

NoneDeleted ==
    [snapshots |-> FALSE, segment_utilization |-> FALSE, segments |-> FALSE,
     block_index |-> FALSE, subblock_signatures |-> FALSE]

\* Any content of the five tables, with or without dangling rows: the
\* snapshot with id i is named i and belongs to SchemeOf(i), block b is an
\* object of segment SegmentOfBlock(b), and snapshot i has utilization rows
\* for segments of SegmentsOfSnapshot(i) only.
InitDB ==
    /\ snapshots \in SUBSET {r \in SnapshotRows :
                                /\ r.name = r.snapshotid
                                /\ r.scheme = SchemeOf(r.snapshotid)}
    /\ segment_utilization \in
           SUBSET {r \in UtilizationRows :
                      r.segmentid \in SegmentsOfSnapshot(r.snapshotid)}
    /\ segments \in SUBSET SegmentRows
    /\ block_index \in SUBSET {r \in BlockRows :
                                  r.segmentid = SegmentOfBlock(r.blockid)}
    /\ subblock_signatures \in SUBSET SignatureRows
    /\ dbOp = "init"
    /\ gcAgain = FALSE
    /\ dbDeleted = NoneDeleted

\* The database of a run that does not use it.
IdleDB ==
    /\ snapshots = {} /\ segment_utilization = {} /\ segments = {}
    /\ block_index = {} /\ subblock_signatures = {}
    /\ dbOp = "init" /\ gcAgain = FALSE /\ dbDeleted = NoneDeleted

\* delete from snapshots where scheme = ? and name = ?
DeleteSnapshotByName(rows, scheme, name) ==
    {r \in rows : ~(r.scheme = scheme /\ r.name = name)}

\* delete from snapshots where snapshotid = ?
DeleteSnapshotById(rows, id) ==
    {r \in rows : r.snapshotid # id}

\* GcUtilization with the statement left out.
GcUtilization_skipped(util, snaps) == util

\* delete from segment_utilization
\*   where snapshotid not in (select snapshotid from snapshots)
GcUtilization(util, snaps) ==
    {u \in util : u.snapshotid \in {s.snapshotid : s \in snaps}}

\* GcSegments selecting the wrong column of segment_utilization.
GcSegments_wrongColumn(segs, util) ==
    {g \in segs : g.segmentid \in {u.snapshotid : u \in util}}

\* GcSegments run before the first statement has cleaned segment_utilization.
GcSegments_beforeUtilization(segs, util) ==
    {g \in segs : g.segmentid \in {u.segmentid : u \in segment_utilization}}

\* delete from segments
\*   where segmentid not in (select segmentid from segment_utilization)
GcSegments(segs, util) ==
    {g \in segs : g.segmentid \in {u.segmentid : u \in util}}

\* GcBlockIndex with the statement left out.
GcBlockIndex_skipped(blocks, segs) == blocks

\* delete from block_index
\*   where segmentid not in (select segmentid from segments)
GcBlockIndex(blocks, segs) ==
    {b \in blocks : b.segmentid \in {g.segmentid : g \in segs}}

\* delete from subblock_signatures
\*   where blockid not in (select blockid from block_index)
GcSignatures(sigs, blocks) ==
    {x \in sigs : x.blockid \in {b.blockid : b \in blocks}}

\* LocalDatabase.delete_snapshot(scheme, name)
delete_snapshot(scheme, name) ==
    /\ snapshots' = DeleteSnapshotByName(snapshots, scheme, name)
    /\ dbOp' = "delete_snapshot"
    /\ dbDeleted' = [NoneDeleted EXCEPT !.snapshots = (snapshots' # snapshots)]
    /\ gcAgain' = FALSE
    /\ UNCHANGED <<segment_utilization, segments, block_index,
                   subblock_signatures>>
    /\ UNCHANGED notDB

\* Database.delete_snapshot(snapshot)
Database_delete_snapshot(id) ==
    /\ snapshots' = DeleteSnapshotById(snapshots, id)
    /\ dbOp' = "delete_snapshot"
    /\ dbDeleted' = [NoneDeleted EXCEPT !.snapshots = (snapshots' # snapshots)]
    /\ gcAgain' = FALSE
    /\ UNCHANGED <<segment_utilization, segments, block_index,
                   subblock_signatures>>
    /\ UNCHANGED notDB

\* The four delete statements of garbage_collect, each reading the tables
\* the statements before it have left.
GarbageCollectStatements ==
    LET util == GcUtilization(segment_utilization, snapshots)
        segs == GcSegments(segments, util)
        blocks == GcBlockIndex(block_index, segs)
        sigs == GcSignatures(subblock_signatures, blocks)
    IN  /\ segment_utilization' = util
        /\ segments' = segs
        /\ block_index' = blocks
        /\ subblock_signatures' = sigs
        /\ dbOp' = "garbage_collect"
        /\ dbDeleted' =
             [snapshots |-> FALSE,
              segment_utilization |-> (util # segment_utilization),
              segments |-> (segs # segments),
              block_index |-> (blocks # block_index),
              subblock_signatures |-> (sigs # subblock_signatures)]
        /\ gcAgain' = (dbOp = "garbage_collect")
        /\ UNCHANGED snapshots
        /\ UNCHANGED notDB

\* LocalDatabase.garbage_collect()
garbage_collect == GarbageCollectStatements

\* Database.garbage_collect()
Database_garbage_collect == GarbageCollectStatements

NextDB ==
    \/ \E scheme \in Schemes : \E name \in SnapshotIds :
           delete_snapshot(scheme, name)
    \/ \E id \in SnapshotIds : Database_delete_snapshot(id)
    \/ garbage_collect
    \/ Database_garbage_collect

\* Referential integrity of the local database (the data model's invariant).
BlockIndexHasSegment ==
    \A b \in block_index : \E g \in segments : g.segmentid = b.segmentid

UtilizationHasSnapshot ==
    \A u \in segment_utilization :
        \E s \in snapshots : s.snapshotid = u.snapshotid

UtilizationHasSegment ==
    \A u \in segment_utilization :
        \E g \in segments : g.segmentid = u.segmentid

Consistent ==
    BlockIndexHasSegment /\ UtilizationHasSnapshot /\ UtilizationHasSegment

\* The database as the backup writer leaves it: every reference resolves.
InitDBConsistent == InitDB /\ Consistent

----------------------------------------------------------------------------
(* The backend as cmd_garbage_collect sees it.  A file is its directory,   *)
(* the search category whose name pattern its basename matches, the name   *)
(* that pattern captures (group 1) and the rest of the basename.           *)

SnapNames == {<<"snapshot", i>> : i \in 1..MaxSnapName}
SegNames == {<<"segment", i>> : i \in 1..MaxSegName}

File(dir, type, name, ext) ==
    [dir |-> dir, type |-> type, name |-> name, ext |-> ext]

\* snapshots/snapshot-<n>.cumulus for every name, and a second descriptor
\* snapshot-<1>.lbs in the root for the first name.
DescriptorFiles ==
    {File("snapshots", "snapshots", n, ".cumulus") : n \in SnapNames}
    \cup {File("", "snapshots", <<"snapshot", 1>>, ".lbs")}

\* segments/<uuid>.tar
SegmentFiles == {File("segments", "segments", s, ".tar") : s \in SegNames}

\* meta/snapshot-<1>.sha1sums and meta/snapshot-<1>.meta
AuxiliaryFiles ==
    {File("meta", "checksums", <<"snapshot", 1>>, ".sha1sums"),
     File("meta", "meta", <<"snapshot", 1>>, ".meta")}

BackendFiles == DescriptorFiles \cup SegmentFiles \cup AuxiliaryFiles

\* A parsed descriptor: whether check_version accepts its Format, and the
\* names in its Segments field.
Descriptors ==
    [format : {"newer"}, segments : {{}}]
    \cup [format : {"supported"}, segments : SUBSET SegNames]

NoDescriptor == [format |-> "absent", segments |-> {}]

GcNotRun ==
    [ran |-> FALSE, dry_run |-> FALSE, failed |-> FALSE, loaded |-> {},
     to_delete |-> {}]

\* Any set of files, each descriptor among them with any content.
InitGC ==
    /\ content \in [DescriptorFiles -> Descriptors \cup {NoDescriptor}]
    /\ \E others \in SUBSET (SegmentFiles \cup AuxiliaryFiles) :
           backend = {f \in DescriptorFiles : content[f] # NoDescriptor}
                        \cup others
    /\ gc = GcNotRun

\* The backend of a run that does not use it.
IdleGC ==
    /\ backend = {}
    /\ content = [f \in DescriptorFiles |-> NoDescriptor]
    /\ gc = GcNotRun

\* SEARCH_PATHS: the categories, and SearchPath.directories() of each.
FileTypes == {"checksums", "meta", "segments", "snapshots"}

Directories(filetype) ==
    CASE filetype = "checksums" -> {"meta", "checksums", ""}
      [] filetype = "meta"      -> {"meta"}
      [] filetype = "segments"  -> {"segments0", "segments1", "", "segments"}
      [] filetype = "snapshots" -> {"snapshots", ""}

\* FileStore.list(subdir): the entries of the directory.  The root also
\* lists the subdirectories, every one of which holds a file.
DirectoryHasEntry(files, d) ==
    \/ \E f \in files : f.dir = d
    \/ d = "" /\ files # {}

\* SearchPath.list raises NotFound unless some directory had an entry.
ListSucceeds(files, filetype) ==
    \E d \in Directories(filetype) : DirectoryHasEntry(files, d)

\* BackendWrapper.list_generic(filetype): the (name, path) pairs of the
\* entries in the category's directories that match its pattern.
ListGeneric(files, filetype) ==
    {f \in files : f.dir \in Directories(filetype) /\ f.type = filetype}

\* CumulusStore.list_snapshots(): the set of listed names.
ListSnapshots(files) == {f.name : f \in ListGeneric(files, "snapshots")}

\* referenced, with the update from the Segments field left out.
Referenced_withoutSegments(names, loaded) == names

\* referenced: every listed snapshot name and every name in the Segments
\* field of every descriptor read.
Referenced(names, loaded) ==
    names \cup UNION {content[f].segments : f \in loaded}

\* to_delete: the listed files of every category whose name is not
\* referenced.
ToDelete(files, referenced) ==
    UNION {{f \in ListGeneric(files, t) : f.name \notin referenced} :
              t \in FileTypes}

\* Deleting although dry_run is set.
Deleted_ignoringDryRun(files, to_delete, dry_run) == files \ to_delete

\* for f in to_delete: if not options.dry_run: raw_backend.delete(f)
Deleted(files, to_delete, dry_run) ==
    IF dry_run THEN files ELSE files \ to_delete

\* load_snapshot(s) for every listed name s: open_snapshot takes the first
\* search path entry whose file exists.  With two descriptor files of one
\* name the entry that comes first depends on the hits before it (a hit
\* moves its entry to the front) and so on the iteration order of the set
\* of names: either file may be the one read.
LoadChoices(files) ==
    LET listed == ListGeneric(files, "snapshots")
        names == ListSnapshots(files)
        Copies(n) == {f \in listed : f.name = n}
    IN  {{pick[n] : n \in names} :
            pick \in {p \in [names -> listed] :
                         \A n \in names : p[n] \in Copies(n)}}

\* cmd_garbage_collect(args) with options.dry_run = dry_run
cmd_garbage_collect(dry_run) ==
    \E loaded \in LoadChoices(backend) :
        LET failed ==
                \/ \E t \in FileTypes : ~ListSucceeds(backend, t)
                \/ \E f \in loaded : content[f].format # "supported"
            referenced == Referenced(ListSnapshots(backend), loaded)
            to_delete == IF failed THEN {} ELSE ToDelete(backend, referenced)
        IN  /\ backend' = Deleted(backend, to_delete, dry_run)
            /\ gc' = [ran |-> TRUE, dry_run |-> dry_run, failed |-> failed,
                      loaded |-> loaded, to_delete |-> to_delete]
            /\ UNCHANGED content
            /\ UNCHANGED notGC

NextGC == \E dry_run \in BOOLEAN : cmd_garbage_collect(dry_run)

----------------------------------------------------------------------------
(* CumulusStore: references, checksums, the extraction cache and get.      *)

CACHE_SIZE == 16

Bytes == {0, 1}
Data == UNION {[1..n -> Bytes] : n \in 0..MaxLen}
Lengths == 0..(MaxLen + 1)

\* CHECKSUM_ALGORITHMS, and hashlib's digest of data under each of them.
CHECKSUM_ALGORITHMS == {"sha1", "sha224", "sha256"}

Salt(algo) ==
    CASE algo = "sha1" -> 1 [] algo = "sha224" -> 2 [] algo = "sha256" -> 3

RECURSIVE Digest(_, _, _)
Digest(algo, data, i) ==
    IF i > Len(data) THEN Salt(algo)
    ELSE ((i + Salt(algo)) * (data[i] + 1) + 2 * Digest(algo, data, i + 1))
             % DigestRange

hexdigest(algo, data) == Digest(algo, data, 1)

\* A reference string "<segment>/<object>(<algo>=<digest>)[<slice>]" or
\* "zero[<slice>]": its parts, with algo "None" for no checksum and form
\* "none", "N", "=N" or "S+N" for the text between the brackets.
NoChecksum == [algo |-> "None", digest |-> 0]
Checksums(algos) ==
    {NoChecksum} \cup [algo : algos, digest : 0..(DigestRange - 1)]
UnknownChecksum == [algo |-> "md5", digest |-> 0]
SliceTexts ==
    [form : {"none"}, s : {0}, n : {0}]
    \cup [form : {"N", "=N"}, s : {0}, n : Lengths]
    \cup [form : {"S+N"}, s : Lengths, n : Lengths]

RefStr(segment, object, checksum, slice) ==
    [segment |-> segment, object |-> object, checksum |-> checksum,
     form |-> slice.form, s |-> slice.s, n |-> slice.n]

ZeroName == <<"zero", 0>>

\* "zero[N]", and the strings "zero", "zero[=N]" and "zero[S+N]" that match
\* neither pattern of parse_ref.
ZeroRefs ==
    {RefStr(ZeroName, 0, NoChecksum, sl) : sl \in SliceTexts}

ObjectRefs(segs, objs, sums) ==
    {RefStr(sg, o, c, sl) : sg \in segs, o \in objs, c \in sums,
                            sl \in SliceTexts}

NoSlice == [start |-> 0, length |-> 0, exact |-> FALSE, given |-> FALSE]
Slice(start, length, exact) ==
    [start |-> start, length |-> length, exact |-> exact, given |-> TRUE]

\* parse_ref: the tuple (segment, object, checksum, slice), or matched
\* FALSE for the None it returns when neither pattern matches.
NotParsed ==
    [matched |-> FALSE, segment |-> ZeroName, object |-> 0,
     checksum |-> NoChecksum, slice |-> NoSlice]

parse_ref(refstr) ==
    IF refstr.segment = ZeroName
    THEN IF refstr.form = "N"
         THEN [matched |-> TRUE, segment |-> ZeroName, object |-> 0,
               checksum |-> NoChecksum,
               slice |-> Slice(0, refstr.n, FALSE)]
         ELSE NotParsed
    ELSE [matched |-> TRUE, segment |-> refstr.segment,
          object |-> refstr.object, checksum |-> refstr.checksum,
          slice |-> CASE refstr.form = "none" -> NoSlice
                      [] refstr.form \in {"N", "=N"} ->
                             \* group 6 matches with and without the "="
                             Slice(0, refstr.n, TRUE)
                      [] refstr.form = "S+N" ->
                             Slice(refstr.s, refstr.n, FALSE)]

\* "\0" * n
ZeroBytes_oneMore(n) == [i \in 1..(n + 1) |-> 0]

ZeroBytes(n) == [i \in 1..n |-> 0]

\* data[a:b] of Python
PySlice(data, a, b) ==
    LET e == IF b < Len(data) THEN b ELSE Len(data)
    IN  IF a >= e THEN <<>> ELSE SubSeq(data, a + 1, e)

Ok(data) == [status |-> "ok", data |-> data]
Raise(error) == [status |-> error, data |-> <<>>]

\* ChecksumVerifier(checksum).update(data).valid(), with KeyError for an
\* algorithm that CHECKSUM_ALGORITHMS does not have.
Verify(checksum, data) ==
    IF checksum.algo \notin CHECKSUM_ALGORITHMS THEN "UnsupportedAlgorithm"
    ELSE IF hexdigest(checksum.algo, data) = checksum.digest THEN "ok"
    ELSE "ChecksumMismatch"

\* The slice step of get (ValueError for a failed size assertion,
\* IndexError for a short result).
ApplySlice_noLengthCheck(slice, data) ==
    IF slice.exact /\ Len(data) # slice.length
    THEN Raise("ExactSizeViolation")
    ELSE Ok(PySlice(data, slice.start, slice.start + slice.length))

ApplySlice(slice, data) ==
    IF slice.exact /\ Len(data) # slice.length
    THEN Raise("ExactSizeViolation")
    ELSE LET part == PySlice(data, slice.start, slice.start + slice.length)
         IN  IF Len(part) # slice.length THEN Raise("ShortObject")
             ELSE Ok(part)

\* The checks of get on the object read: the checksum, then the slice.
Checked_sliceFirst(parsed, data) ==
    LET sliced == IF parsed.slice.given THEN ApplySlice(parsed.slice, data)
                  ELSE Ok(data)
    IN  IF sliced.status # "ok" THEN sliced
        ELSE IF parsed.checksum = NoChecksum THEN sliced
        ELSE IF Verify(parsed.checksum, sliced.data) # "ok"
             THEN Raise(Verify(parsed.checksum, sliced.data))
        ELSE sliced

Checked_ignoreSlice(parsed, data) ==
    LET valid == IF parsed.checksum = NoChecksum THEN "ok"
                 ELSE Verify(parsed.checksum, data)
    IN  IF valid # "ok" THEN Raise(valid) ELSE Ok(data)

Checked(parsed, data) ==
    LET valid == IF parsed.checksum = NoChecksum THEN "ok"
                 ELSE Verify(parsed.checksum, data)
    IN  IF valid # "ok" THEN Raise(valid)
        ELSE IF parsed.slice.given THEN ApplySlice(parsed.slice, data)
        ELSE Ok(data)

\* A segment on the backend is the set of its tar entries; a cache
\* directory is the set of the files written into it.
Entry(object, data) == [object |-> object, data |-> data]
NotStored == {Entry(0, <<>>)}
NoDir == {Entry(0, <<>>)}

Readable(files, object) ==
    files # NoDir /\ \E e \in files : e.object = object

Read(files, object) == (CHOOSE e \in files : e.object = object).data

Without(list, x) == SelectSeq(list, LAMBDA y : y # x)

\* The loop of load_object that removes the directories of the least
\* recently used segments.
Evict_newest(dirs, list) ==
    IF Len(list) > CACHE_SIZE
    THEN [cache |-> [dirs EXCEPT ![list[Len(list)]] = NoDir],
          _lru_list |-> SubSeq(list, 1, CACHE_SIZE)]
    ELSE [cache |-> dirs, _lru_list |-> list]

RECURSIVE Evict(_, _)
Evict(dirs, list) ==
    IF Len(list) > CACHE_SIZE
    THEN Evict([dirs EXCEPT ![Head(list)] = NoDir], Tail(list))
    ELSE [cache |-> dirs, _lru_list |-> list]

\* accessed_segments.add(segment) of load_object, for an object that is
\* in the cache (hit) as for one that is not.
Accessed_onlyWhenFetching(segment, hit) ==
    IF hit THEN accessed_segments ELSE accessed_segments \cup {segment}

Accessed(segment, hit) == accessed_segments \cup {segment}

\* load_object(segment, object): what it returns or raises, and the store
\* it leaves.
load_object(segment, object) ==
    LET accessed == Accessed(segment, Readable(cache[segment], object))
        Left(result, dirs, list, didFetch) ==
            [result |-> result, cache |-> dirs, _lru_list |-> list,
             accessed_segments |-> accessed, fetched |-> didFetch]
        Finish(dirs, didFetch) ==
            LET kept == Evict(dirs, Append(Without(_lru_list, segment),
                                           segment))
            IN  IF Readable(kept.cache[segment], object)
                THEN Left(Ok(Read(kept.cache[segment], object)),
                          kept.cache, kept._lru_list, didFetch)
                ELSE Left(Raise("NoSuchObject"), kept.cache,
                          kept._lru_list, didFetch)
    IN  IF Readable(cache[segment], object) THEN Finish(cache, FALSE)
        \* extract_segment: os.mkdir fails on an existing directory
        ELSE IF cache[segment] # NoDir
        THEN Left(Raise("CacheError"), cache, _lru_list, FALSE)
        \* get_segment: open_segment raises NotFoundError
        ELSE IF stored[segment] = NotStored
        THEN Left(Raise("NotFound"), [cache EXCEPT ![segment] = {}],
                  _lru_list, TRUE)
        ELSE Finish([cache EXCEPT ![segment] = stored[segment]], TRUE)

\* CumulusStore.get(refstr)
get(refstr) ==
    LET parsed == parse_ref(refstr)
    IN  /\ req' = refstr
        /\ IF ~parsed.matched
           THEN /\ res' = Raise("BadReference")
                /\ fetched' = FALSE
                /\ UNCHANGED <<cache, _lru_list, accessed_segments>>
           ELSE IF parsed.segment = ZeroName
           THEN /\ res' = Ok(ZeroBytes(parsed.slice.length))
                /\ fetched' = FALSE
                /\ UNCHANGED <<cache, _lru_list, accessed_segments>>
           ELSE LET loaded == load_object(parsed.segment, parsed.object)
                IN  /\ cache' = loaded.cache
                    /\ _lru_list' = loaded._lru_list
                    /\ accessed_segments' = loaded.accessed_segments
                    /\ fetched' = loaded.fetched
                    /\ res' = IF loaded.result.status # "ok"
                              THEN loaded.result
                              ELSE Checked(parsed, loaded.result.data)
        /\ UNCHANGED stored
        /\ UNCHANGED notStore

NoRequest ==
    RefStr(ZeroName, 0, NoChecksum, [form |-> "none", s |-> 0, n |-> 0])

\* A new CumulusStore: no cache directory, an empty LRU list.
NewStoreFor(names) ==
    /\ cache = [sg \in names |-> NoDir]
    /\ _lru_list = <<>>
    /\ accessed_segments = {}
    /\ fetched = FALSE
    /\ req = NoRequest
    /\ res = Raise("none")

NewStore ==
    /\ cache = [sg \in SegNames |-> NoDir]
    /\ _lru_list = <<>>
    /\ accessed_segments = {}
    /\ fetched = FALSE
    /\ req = NoRequest
    /\ res = Raise("none")

\* The store of a run that does not use it.
IdleStore ==
    /\ stored = [sg \in SegNames |-> NotStored]
    /\ NewStore

\* One segment with one object of any content (or without the object, or
\* not on the backend at all); the other segments are not on the backend.
FirstSegment == <<"segment", 1>>

InitGet ==
    /\ \E entries \in {NotStored, {}} \cup {{Entry(1, d)} : d \in Data} :
           stored = [sg \in SegNames |->
                        IF sg = FirstSegment THEN entries ELSE NotStored]
    /\ NewStore

\* References to the object of the first segment, in every form.
GetRefs ==
    ObjectRefs({FirstSegment}, {1},
               Checksums({"sha1"}) \cup {UnknownChecksum})
    \cup ZeroRefs

NextGet == \E refstr \in GetRefs : get(refstr) /\ UNCHANGED hist

----------------------------------------------------------------------------
(* The extraction cache over many loads, and accessed_segments over the    *)
(* verification of several snapshots.                                      *)

\* What has been loaded so far: the distinct segments whose cache
\* directory a load used, least recently used first; whether a load failed
\* to use the cache or used a segment again; the segments evicted, in
\* order; the segments get loaded from since accessed_segments was last
\* cleared, and whether it ever was.
NoHistory ==
    [used |-> <<>>, repeated |-> FALSE, evicted |-> <<>>, sinceClear |-> {},
     cleared |-> FALSE]

Elements(list) == {list[i] : i \in 1..Len(list)}

IdleHist == hist = NoHistory

PlainRef(segment, object) ==
    RefStr(segment, object, NoChecksum, [form |-> "none", s |-> 0, n |-> 0])

\* get(refstr), recorded in hist.
LoggedGet(refstr) ==
    LET parsed == parse_ref(refstr)
        loads == parsed.matched /\ parsed.segment # ZeroName
        usedCache == loads /\ res'.status \notin {"CacheError", "NotFound"}
        before == IF usedCache
                  THEN Append(Without(_lru_list, parsed.segment),
                              parsed.segment)
                  ELSE _lru_list
        gone == SelectSeq(before,
                          LAMBDA sg : sg \notin Elements(_lru_list'))
    IN  /\ get(refstr)
        /\ hist' = [used |-> IF usedCache
                             THEN Append(Without(hist.used, parsed.segment),
                                         parsed.segment)
                             ELSE hist.used,
                    repeated |-> \/ hist.repeated
                                \/ (loads /\ ~usedCache)
                                \/ (loads /\ parsed.segment
                                                 \in Elements(hist.used)),
                    evicted |-> hist.evicted \o gone,
                    sinceClear |-> IF loads
                                   THEN hist.sinceClear \cup {parsed.segment}
                                   ELSE hist.sinceClear,
                    cleared |-> hist.cleared]

\* One segment more than the cache holds. Each has object 1; the second
\* may be missing from the backend.
LruSegNames == {<<"segment", i>> : i \in 1..(CACHE_SIZE + 1)}
SecondSegment == <<"segment", 2>>
HotSegments == {FirstSegment, SecondSegment}

InitLru ==
    /\ \E second \in {NotStored, {Entry(1, <<1>>)}} :
           stored = [sg \in LruSegNames |->
                        IF sg = SecondSegment THEN second
                        ELSE {Entry(1, <<1>>)}]
    /\ NewStoreFor(LruSegNames)
    /\ IdleHist

\* The loads of a run: of the first two segments at any time, and of the
\* other segments in a linear scan.
NextInScan ==
    {sg \in LruSegNames :
        /\ sg \notin accessed_segments
        /\ \A i \in 1..(sg[2] - 1) :
               <<"segment", i>> \in accessed_segments \cup HotSegments}

LruRefs ==
    {PlainRef(sg, 1) : sg \in HotSegments \cup NextInScan}
    \cup {PlainRef(FirstSegment, 2)}

NextLru ==
    \E refstr \in LruRefs :
        Len(hist.evicted) < MaxEvicted /\ LoggedGet(refstr)

\* cmd_verify_snapshots starts on a snapshot: it clears accessed_segments
\* and keeps the store, with its cache, of the snapshots before.
ClearAccessed ==
    /\ accessed_segments' = {}
    /\ hist' = [hist EXCEPT !.sinceClear = {}, !.cleared = TRUE]
    /\ UNCHANGED <<stored, cache, _lru_list, fetched, req, res>>
    /\ UNCHANGED notStore

\* The segments of the model, each with object 1 or not on the backend.
InitAccessed ==
    /\ stored \in [SegNames -> {NotStored, {Entry(1, <<1>>)}}]
    /\ NewStore
    /\ IdleHist

\* The references the verifier gets: to object 1 and to an object 2 that
\* no segment has, and zero[N].
AccessedRefs ==
    {PlainRef(sg, o) : sg \in SegNames, o \in {1, 2}}
    \cup {r \in ZeroRefs : r.form = "N"}

NextAccessed ==
    \/ \E refstr \in AccessedRefs : LoggedGet(refstr)
    \/ ClearAccessed

----------------------------------------------------------------------------
(* read_metadata and MetadataItem.data: following indirect references.     *)

MAX_RECURSION_DEPTH == 3

\* The objects of a metadata log, nested one deeper than the traversal
\* follows: object 1 is the root (for MetadataItem.data, the data field),
\* and a reference in object i names object i + 1.
MdObjects == 1..(MAX_RECURSION_DEPTH + 1)

\* The element (a line of the log, a token of a block list) at position
\* pos of object i, and the element "@<name of object j>".
Line(i, pos) == <<"line", i, pos>>
Ref(j) == <<"@", j, 0>>

Indirect(element) == element[1] = "@"

MdContents(i) ==
    IF i > MAX_RECURSION_DEPTH THEN {<<Line(i, 1)>>}
    ELSE UNION {{[pos \in 1..n |->
                     IF c[pos] = "@" THEN Ref(i + 1) ELSE Line(i, pos)]
                 : c \in [1..n -> {"line", "@"}]}
                : n \in 0..MaxItems}

\* lines.reverse() / objects.reverse()
Reversed_not(list) == list

Reversed(list) == [k \in 1..Len(list) |-> list[Len(list) + 1 - k]]

\* The test of follow_ref before it fetches the object.
TooDeep_oneMore(stack) == Len(stack) > MAX_RECURSION_DEPTH

TooDeep(stack) == Len(stack) >= MAX_RECURSION_DEPTH

\* stack.append(lines): the lists already on the stack stay there, the
\* emptied ones too, until they are the top again.
Pushed_droppingEmptied(stack, lines) ==
    Append(SelectSeq(stack, LAMBDA list : list # <<>>), lines)

Pushed(stack, lines) == Append(stack, lines)

\* follow_ref(refstr) for the reference to object j: OverflowError, or
\* the reversed elements of the object pushed on the stack.
follow_ref(j) ==
    IF TooDeep(md.stack)
    THEN md' = [md EXCEPT !.status = "RecursionTooDeep"]
    ELSE md' = [md EXCEPT !.stack = Pushed(@, Reversed(md.objects[j])),
                          !.status = "running"]

NoTraversal ==
    [kind |-> "none", objects |-> <<>>, stack |-> <<>>, yielded |-> <<>>,
     status |-> "idle"]

IdleMd == md = NoTraversal

\* Every choice of contents for the objects 1..n.
RECURSIVE MdObjectsUpTo(_)
MdObjectsUpTo(n) ==
    IF n = 0 THEN {<<>>}
    ELSE {Append(objects, c) : objects \in MdObjectsUpTo(n - 1),
                               c \in MdContents(n)}

InitMd ==
    \E kind \in {"read_metadata", "data"},
       objects \in MdObjectsUpTo(MAX_RECURSION_DEPTH + 1) :
        md = [kind |-> kind, objects |-> objects, stack |-> <<>>,
              yielded |-> <<>>, status |-> "new"]

\* read_metadata up to its loop: follow_ref(root) on the empty stack.
read_metadata_start ==
    /\ md.kind = "read_metadata"
    /\ md.status = "new"
    /\ follow_ref(1)
    /\ UNCHANGED notMd

\* MetadataItem.data up to its loop: the stack holds the reversed tokens
\* of the data field.
data_start ==
    /\ md.kind = "data"
    /\ md.status = "new"
    /\ md' = [md EXCEPT !.stack = <<Reversed(md.objects[1])>>,
                        !.status = "running"]
    /\ UNCHANGED notMd

\* One iteration of the loop of either function.
TraversalStep ==
    /\ md.status = "running"
    /\ IF md.stack = <<>>
       THEN md' = [md EXCEPT !.status = "done"]
       ELSE LET depth == Len(md.stack)
                top == md.stack[depth]
            IN  IF top = <<>>
                THEN md' = [md EXCEPT !.stack = SubSeq(@, 1, depth - 1)]
                ELSE LET element == top[Len(top)]
                         popped == [md.stack EXCEPT ![depth] =
                                        SubSeq(top, 1, Len(top) - 1)]
                     IN  IF Indirect(element)
                         THEN IF TooDeep(popped)
                              THEN md' = [md EXCEPT
                                            !.stack = popped,
                                            !.status = "RecursionTooDeep"]
                              ELSE md' = [md EXCEPT
                                            !.stack = Pushed(popped,
                                                Reversed(md.objects[element[2]]))]
                         ELSE md' = [md EXCEPT
                                       !.stack = popped,
                                       !.yielded = Append(@, element)]
    /\ UNCHANGED notMd

read_metadata_next == md.kind = "read_metadata" /\ TraversalStep

data_next == md.kind = "data" /\ TraversalStep

NextMd ==
    \/ read_metadata_start
    \/ read_metadata_next
    \/ data_start
    \/ data_next

\* Object stores with references in any direction: two objects of up to
\* MaxCycleItems elements, each element a line or a reference to either
\* object, so an object may name itself or the object that names it.
MaxCycleItems == 2

CycleObjects == 1..2

CycleContents(i) ==
    UNION {{[pos \in 1..n |->
                IF c[pos] = 0 THEN Line(i, pos) ELSE Ref(c[pos])]
            : c \in [1..n -> {0} \cup CycleObjects]}
           : n \in 0..MaxCycleItems}

InitMdCycle ==
    \E kind \in {"read_metadata", "data"},
       first \in CycleContents(1), second \in CycleContents(2) :
        md = [kind |-> kind, objects |-> <<first, second>>, stack |-> <<>>,
              yielded |-> <<>>, status |-> "new"]

----------------------------------------------------------------------------
(* The version gate: parse_metadata_version and check_version.             *)

\* FORMAT_VERSION of cmd_util: min(cumulus.FORMAT_VERSION, (0, 11))
FORMAT_VERSION == <<0, 11>>

\* A Format value "<system> Snapshot v<c1>.<c2>...": its system and the
\* digit strings between the dots (none for a text the pattern rejects).
DigitStrings == {<<0>>, <<0, 1>>, <<1, 1>>, <<1, 2>>}

FormatTexts ==
    [system : {"Cumulus", "LBS", "Other"},
     components : UNION {[1..n -> DigitStrings] : n \in 0..MaxComponents}]

\* int(d) of a digit string
RECURSIVE int(_)
int(digits) ==
    IF digits = <<>> THEN 0
    ELSE 10 * int(SubSeq(digits, 1, Len(digits) - 1)) + digits[Len(digits)]

\* parse_metadata_version(s): the tuple of the numbers, () without a match
parse_metadata_version(s) ==
    IF s.system \in {"Cumulus", "LBS"} /\ Len(s.components) >= 1
    THEN [k \in 1..Len(s.components) |-> int(s.components[k])]
    ELSE <<>>

\* a > b for tuples of numbers, as Python compares them
RECURSIVE GreaterTuple_orEqual(_, _)
GreaterTuple_orEqual(a, b) ==
    IF b = <<>> THEN TRUE
    ELSE IF a = <<>> THEN FALSE
    ELSE IF Head(a) # Head(b) THEN Head(a) > Head(b)
    ELSE GreaterTuple_orEqual(Tail(a), Tail(b))

RECURSIVE GreaterTuple(_, _)
GreaterTuple(a, b) ==
    IF a = <<>> THEN FALSE
    ELSE IF b = <<>> THEN TRUE
    ELSE IF Head(a) # Head(b) THEN Head(a) > Head(b)
    ELSE GreaterTuple(Tail(a), Tail(b))

NoCheck == [format |-> [system |-> "none", components |-> <<>>],
            status |-> "none"]

IdleVer == ver = NoCheck

InitVer == ver = NoCheck

\* check_version(format)
check_version(format) ==
    /\ ver' = [format |-> format,
               status |-> IF GreaterTuple(parse_metadata_version(format),
                                          FORMAT_VERSION)
                          THEN "UnsupportedVersion" ELSE "accepted"]
    /\ UNCHANGED notVer

NextVer == \E format \in FormatTexts : check_version(format)

----------------------------------------------------------------------------
(* cmd_restore_snapshot: the plan, the extraction of the files, and the    *)
(* special files, owners, modes and times.                                 *)

\* The text of an integer field: a prefix "", "0" or "0x" and digits.
IntText(prefix, digits) == [prefix |-> prefix, digits |-> digits]

RECURSIVE InBase(_, _)
InBase(digits, base) ==
    IF digits = <<>> THEN 0
    ELSE base * InBase(SubSeq(digits, 1, Len(digits) - 1), base)
             + digits[Len(digits)]

\* MetadataItem.decode_int: hexadecimal after 0x, octal after 0, else
\* decimal.
decode_int(s) ==
    CASE s.prefix = "0x" -> InBase(s.digits, 16)
      [] s.prefix = "0" -> InBase(s.digits, 8)
      [] OTHER -> InBase(s.digits, 10)

\* int(s) of Python: decimal, leading zeros allowed, ValueError (-1 here)
\* for a text with 0x.
int_decimal(s) == IF s.prefix = "0x" THEN -1 ELSE InBase(s.digits, 10)

\* The size fields of the model: "8", "010" and "0x8".
SizeTexts == {IntText("", <<8>>), IntText("0", <<1, 0>>), IntText("0x", <<8>>)}

\* The keys that parse_ref gives the blocks of a file: a segment, and
\* "zero" for the blocks zero[N].
RestoreKeys == {FirstSegment, ZeroName}

\* The operating system calls of Phase 3/4.
StepNames == {"create", "lchown", "chmod", "utime"}

\* An item of the metadata log: its type; for a regular file the keys of
\* its blocks, its size field, the number of bytes its blocks hold and
\* whether they have the checksum of the item; and the calls of Phase 3/4
\* that fail on its path.
Item(type, keys, size, bytes, sumOk, fails) ==
    [type |-> type, keys |-> keys, size |-> size, bytes |-> bytes,
     sumOk |-> sumOk, fails |-> fails]

RegularItems(fails) ==
    {Item("f", keys, size, bytes, sumOk, f) :
        keys \in SUBSET RestoreKeys, size \in SizeTexts, bytes \in {8, 10},
        sumOk \in BOOLEAN, f \in fails}

OtherItems(types, fails) ==
    {Item(type, {}, IntText("", <<0>>), 0, TRUE, f) :
        type \in types, f \in fails}

Logs(items) == UNION {[1..n -> items] : n \in 1..MaxRestoreItems}

NoRestore ==
    [log |-> <<>>, status |-> "idle", metadata_items |-> <<>>,
     metadata_paths |-> {}, metadata_segments |-> {}, segment |-> ZeroName,
     queue |-> <<>>, picked |-> <<>>, extracted |-> <<>>, pos |-> 0,
     step |-> "none", steps |-> <<>>]

IdleRs == rs = NoRestore

RestoreOf(log) == [NoRestore EXCEPT !.log = log, !.status = "new"]

Regular(item) == item.type \in {"-", "f"}

\* sorted(items)
RECURSIVE Sorted(_)
Sorted(set) ==
    IF set = {} THEN <<>>
    ELSE LET least == CHOOSE x \in set : \A y \in set : x <= y
         IN  <<least>> \o Sorted(set \ {least})

\* Phase 1: the items in log order, the regular files by path (the path
\* of an item is its place in the log), and for each key the paths of the
\* files that have a block of it.
Plan ==
    /\ rs.status = "new"
    /\ LET n == Len(rs.log)
           files == {i \in 1..n : Regular(rs.log[i])}
           keys == UNION {rs.log[i].keys : i \in files}
       IN  rs' = [rs EXCEPT
                    !.status = "phase2",
                    !.metadata_items = [i \in 1..n |-> i],
                    !.metadata_paths = files,
                    !.metadata_segments =
                        {[segment |-> k,
                          items |-> {i \in files : k \in rs.log[i].keys}]
                         : k \in keys}]
    /\ UNCHANGED notRs

\* restore_file(pathname, m): does it return, or raise ValueError
restore_file(m) ==
    /\ int_decimal(m.size) # -1
    /\ int_decimal(m.size) = m.bytes
    /\ m.sumOk

\* restore_file for path, recorded with the pass that called it.
Extract(path, pass, segment) ==
    LET ok == restore_file(rs.log[path])
        entry == [path |-> path, pass |-> pass, segment |-> segment,
                  ok |-> ok]
    IN  [rs EXCEPT !.extracted = Append(@, entry),
                   !.metadata_paths = IF ok THEN @ \ {path} ELSE @,
                   !.status = IF ok THEN @ ELSE "aborted"]

\* metadata_segments.popitem()
PickSegment ==
    /\ rs.status = "phase2"
    /\ rs.queue = <<>>
    /\ \E e \in rs.metadata_segments :
           rs' = [rs EXCEPT !.metadata_segments = @ \ {e},
                            !.segment = e.segment,
                            !.queue = Sorted(e.items),
                            !.picked = Append(@, e.segment)]
    /\ UNCHANGED notRs

\* "if pathname in metadata_paths"
Planned_always(pathname, paths) == TRUE

Planned(pathname, paths) == pathname \in paths

\* One turn of "for pathname in sorted(items)".
RestoreNext ==
    /\ rs.status = "phase2"
    /\ rs.queue # <<>>
    /\ LET pathname == Head(rs.queue)
       IN  IF Planned(pathname, rs.metadata_paths)
           THEN rs' = [Extract(pathname, "segment", rs.segment)
                          EXCEPT !.queue = Tail(rs.queue)]
           ELSE rs' = [rs EXCEPT !.queue = Tail(rs.queue)]
    /\ UNCHANGED notRs

\* "+ Remaining files"
StartRemaining ==
    /\ rs.status = "phase2"
    /\ rs.queue = <<>>
    /\ rs.metadata_segments = {}
    /\ rs' = [rs EXCEPT !.status = "remaining"]
    /\ UNCHANGED notRs

\* metadata_paths.popitem() and restore_file
RestoreRemaining ==
    /\ rs.status = "remaining"
    /\ \E pathname \in rs.metadata_paths :
           rs' = Extract(pathname, "remaining", ZeroName)
    /\ UNCHANGED notRs

\* reversed(metadata_items)
PhaseOrder_forward(items) == items

PhaseOrder(items) == Reversed(items)

\* The step that follows step on an item of a type, after the step
\* succeeded or not: "end" for the next item.
FirstStep(type) ==
    CASE type \in {"-", "f", "d", "s"} -> "lchown"
      [] type \in {"l", "p", "c", "b"} -> "create"
      [] OTHER -> "end"

StepAfter_regardless(type, step, ok) ==
    CASE step = "create" -> "lchown"
      [] step = "lchown" -> "chmod"
      [] step = "chmod" -> "utime"
      [] OTHER -> "end"

StepAfter(type, step, ok) ==
    CASE step = "create" -> IF ok THEN "lchown" ELSE "end"
      [] step = "lchown" -> IF type = "l" THEN "end" ELSE "chmod"
      [] step = "chmod" -> "utime"
      [] OTHER -> "end"

\* Where Phase 3/4 goes from item number pos of its order with next step.
Advance(r, pos, step) ==
    IF step # "end" THEN [r EXCEPT !.pos = pos, !.step = step]
    ELSE IF pos = Len(r.metadata_items)
    THEN [r EXCEPT !.pos = pos, !.step = "none", !.status = "done"]
    ELSE [r EXCEPT !.pos = pos, !.step = "visit"]

\* The loop of Phase 3/4 starts.
StartPermissions ==
    /\ rs.status = "remaining"
    /\ rs.metadata_paths = {}
    /\ rs' = IF rs.metadata_items = <<>>
             THEN [rs EXCEPT !.status = "done"]
             ELSE [rs EXCEPT !.status = "phase34", !.pos = 0,
                             !.step = "visit"]
    /\ UNCHANGED notRs

\* "permissions:": the loop takes the next item.
VisitItem ==
    /\ rs.status = "phase34"
    /\ rs.step = "visit"
    /\ LET pos == rs.pos + 1
           item == PhaseOrder(rs.metadata_items)[pos]
           entry == [item |-> item, step |-> "visit", ok |-> TRUE]
       IN  rs' = Advance([rs EXCEPT !.steps = Append(@, entry)], pos,
                         FirstStep(rs.log[item].type))
    /\ UNCHANGED notRs

\* One call of the operating system for the current item: os.symlink,
\* os.mkfifo or os.mknod; os.lchown; os.chmod; os.utime.
AfterCall(step) ==
    LET item == PhaseOrder(rs.metadata_items)[rs.pos]
        ok == step \notin rs.log[item].fails
        entry == [item |-> item, step |-> step, ok |-> ok]
    IN  Advance([rs EXCEPT !.steps = Append(@, entry)], rs.pos,
                StepAfter(rs.log[item].type, step, ok))

CreateNode ==
    /\ rs.status = "phase34"
    /\ rs.step = "create"
    /\ rs' = AfterCall("create")
    /\ UNCHANGED notRs

Lchown ==
    /\ rs.status = "phase34"
    /\ rs.step = "lchown"
    /\ rs' = AfterCall("lchown")
    /\ UNCHANGED notRs

Chmod ==
    /\ rs.status = "phase34"
    /\ rs.step = "chmod"
    /\ rs' = AfterCall("chmod")
    /\ UNCHANGED notRs

Utime ==
    /\ rs.status = "phase34"
    /\ rs.step = "utime"
    /\ rs' = AfterCall("utime")
    /\ UNCHANGED notRs

NextRs ==
    \/ Plan
    \/ PickSegment
    \/ RestoreNext
    \/ StartRemaining
    \/ RestoreRemaining
    \/ StartPermissions
    \/ VisitItem
    \/ CreateNode
    \/ Lchown
    \/ Chmod
    \/ Utime

\* Restores of logs of files of every kind and of directories and
\* symlinks, on which no call of Phase 3/4 fails.
InitRestore ==
    \E log \in Logs(RegularItems({{}}) \cup OtherItems({"d", "l"}, {{}})) :
        rs = RestoreOf(log)

\* Restores of logs of items of every type, with any of the calls of
\* Phase 3/4 failing, and files that extract without error.
InitRestoreSteps ==
    \E log \in Logs({Item("f", keys, IntText("", <<8>>), 8, TRUE, f)
                         : keys \in {{}, {FirstSegment}},
                           f \in SUBSET {"lchown", "chmod", "utime"}}
                    \cup OtherItems({"l"}, SUBSET {"create", "lchown"})
                    \cup OtherItems({"p"}, SUBSET StepNames)
                    \cup OtherItems({"?"}, {{}})) :
        rs = RestoreOf(log)

----------------------------------------------------------------------------
(* SearchPath: the locations to try for a file, the successful one first.  *)

\* The SearchPathEntry objects, and the names that are looked up.
Entries == 1..MaxEntries
Basenames == {"a", "b"}

\* What backend.get and backend.stat do with the path that an entry builds
\* for a name: return, raise NotFoundError, or raise another exception.
Outcomes == {"found", "NotFoundError", "IOError"}

\* A call: what was called with which name, how it ended, the entry that
\* had the file, and the entries whose path the call gave to the backend.
Call(op, basename, status, hit, probes) ==
    [op |-> op, basename |-> basename, status |-> status, hit |-> hit,
     probes |-> probes]

NoCall == Call("none", "a", "none", 0, {})

\* The directories of the entries, and what backend.list does with a
\* directory: raise NotFoundError, or return no name, names that the
\* pattern of the SearchPath does not match, or names with a match.
Dirs == {"", "snapshots"}
Listings == {"NotFoundError", "empty", "other", "match"}

\* The outcome of consuming SearchPath.list: how it ended, the directories
\* it listed and those it yielded a match from.
Listed(status, directories, yielded) ==
    [status |-> status, directories |-> directories, yielded |-> yielded]

NoList == Listed("none", {}, {})

\* _path, the _directory_prefix of the entries, the backend (files by
\* name and entry, directories), the last call and the call before it, and
\* the last list.
SearchPathOver(_path, prefix, files, listing) ==
    [_path |-> _path, prefix |-> prefix, files |-> files,
     listing |-> listing, call |-> NoCall, prev |-> NoCall, list |-> NoList]

IdleSp == sp = SearchPathOver(<<>>, <<>>, <<>>, <<>>)

\* list.pop(i) and list.insert(0, entry)
MoveToFront_not(list, i) == list

MoveToFront_swap(list, i) ==
    [k \in 1..Len(list) |->
        IF k = 1 THEN list[i] ELSE IF k = i THEN list[1] ELSE list[k]]

MoveToFront(list, i) ==
    <<list[i]>> \o SubSeq(list, 1, i - 1) \o SubSeq(list, i + 1, Len(list))

\* The loop of get and of stat: the first place of _path whose entry does
\* not raise NotFoundError decides the call.
Search(op, basename) ==
    LET tried == {i \in 1..Len(sp._path) :
                     sp.files[basename][sp._path[i]] # "NotFoundError"}
    IN  IF tried = {}
        THEN [sp EXCEPT !.prev = sp.call,
                        !.call = Call(op, basename, "NotFoundError", 0,
                                      Elements(sp._path))]
        ELSE LET i == CHOOSE k \in tried : \A other \in tried : k <= other
                 entry == sp._path[i]
                 probes == {sp._path[k] : k \in 1..i}
             IN  IF sp.files[basename][entry] = "found"
                 THEN [sp EXCEPT
                         !._path = IF i > 1 THEN MoveToFront(@, i) ELSE @,
                         !.prev = sp.call,
                         !.call = Call(op, basename, "ok", entry, probes)]
                 ELSE [sp EXCEPT
                         !.prev = sp.call,
                         !.call = Call(op, basename, "IOError", 0, probes)]

SearchPath_get(basename) ==
    /\ sp' = Search("get", basename)
    /\ UNCHANGED notSp

SearchPath_stat(basename) ==
    /\ sp' = Search("stat", basename)
    /\ UNCHANGED notSp

NextSp ==
    \E basename \in Basenames :
        \/ SearchPath_get(basename)
        \/ SearchPath_stat(basename)

\* A SearchPath of the entries in the order given to the constructor, on
\* a backend with any files.
InitSp ==
    \E files \in [Basenames -> [Entries -> Outcomes]] :
        LET any == \E b \in Basenames, e \in Entries : files[b][e] = "found"
        IN  sp = SearchPathOver([i \in Entries |-> i],
                                [e \in Entries |-> ""], files,
                                [d \in Dirs |->
                                    IF d = "" /\ any THEN "other"
                                    ELSE "NotFoundError"])

\* SearchPath.directories()
directories == {sp.prefix[sp._path[i]] : i \in 1..Len(sp._path)}

\* "success = True" in the loop over the names of a directory
Success(listing) == listing \in {"other", "match"}

\* SearchPath.list, consumed to its end.
SearchPath_list ==
    /\ LET success == \E d \in directories : Success(sp.listing[d])
           yielded == {d \in directories : sp.listing[d] = "match"}
       IN  sp' = [sp EXCEPT !.list =
                    Listed(IF success THEN "ok" ELSE "NotFoundError",
                           directories, yielded)]
    /\ UNCHANGED notSp

NextSpList == SearchPath_list

\* A SearchPath of entries with any directories, on a backend with any
\* directories and none of the files that get is asked for.
InitSpList ==
    \E prefix \in [Entries -> Dirs], listing \in [Dirs -> Listings] :
        sp = SearchPathOver([i \in Entries |-> i], prefix,
                            [b \in Basenames |->
                                [e \in Entries |-> "NotFoundError"]],
                            listing)

----------------------------------------------------------------------------
(* LocalDatabase: the segment cleaner.                                     *)

\* NULL of SQL, None of Python, in a column of numbers that are not
\* negative.
NULL == 0 - 1

\* A row of segments, with the columns that the view segment_info adds:
\* the bytes in use and the age in days.
SegmentRow(segmentid, expire_time, size, used, age) ==
    [segmentid |-> segmentid, expire_time |-> expire_time, size |-> size,
     used |-> used, age |-> age]

\* A row of block_index; the timestamp in days, now being day 0.
BlockRow(segmentid, expired, timestamp, size) ==
    [segmentid |-> segmentid, expired |-> expired, timestamp |-> timestamp,
     size |-> size]

\* A row of snapshots: the scheme, the intent, and julianday('now') -
\* timestamp in days as prune_old_snapshots selects it.
SnapshotRow(snapshotid, scheme, intent, age) ==
    [snapshotid |-> snapshotid, scheme |-> scheme, intent |-> intent,
     age |-> age]

\* The snapshots table with the given ids: each of scheme "a", intent 1,
\* and the older the smaller its id.
SnapshotsWithIds(ids) == {SnapshotRow(id, "a", 1, 10 - id) : id \in ids}

\* The last call of a method: its name, its argument, how it ended.
CleanerCall(op, arg, status) == [op |-> op, arg |-> arg, status |-> status]

\* A run of cmd_clean: where it stands, options.intent, the schemes still
\* to prune, the segments of the cleaning list still to look at, and the
\* methods of LocalDatabase called so far.
CleanRun(pc, intent, schemes, list, log) ==
    [pc |-> pc, intent |-> intent, schemes |-> schemes,
     segments |-> list, log |-> log]

NoRun == CleanRun("none", 0, <<>>, <<>>, <<>>)

\* The tables in the order a SELECT gives the rows, the list that
\* get_segment_cleaning_list returned, the cutoffs that
\* balance_expired_objects chose, the last call, the run of cmd_clean,
\* and the segments that mark_segment_expired was called for so far.
Database(snaps, segs, blocks) ==
    [snapshots |-> snaps, segment_utilization |-> {}, segments |-> segs,
     block_index |-> blocks, list |-> <<>>, cutoffs |-> <<>>,
     call |-> CleanerCall("none", 0, "none"), run |-> NoRun,
     marked |-> {}]

IdleCl == cl = Database({}, <<>>, <<>>)

\* A number as a fraction in lowest terms (num not negative, den
\* positive), and the order of such fractions.
RECURSIVE GCD(_, _)
GCD(a, b) == IF b = 0 THEN a ELSE GCD(b, a % b)

Fraction(num, den) ==
    [num |-> num \div GCD(num, den), den |-> den \div GCD(num, den)]
Less(x, y) == x.num * y.den < y.num * x.den

\* cleaning_benefit = (1 - u) * (age_days + age_boost) / (u + 0.1) with
\* u = used_bytes / size_bytes, both sides of the division times
\* 10 * size_bytes; what is None counts as 0.
Zero_ifNone(x) == IF x = NULL THEN 0 ELSE x

cleaning_benefit_plusU(row, age_boost) ==
    LET used_bytes == Zero_ifNone(row.used)
        age_days == Zero_ifNone(row.age)
    IN  Fraction(10 * (row.size + used_bytes) * (age_days + age_boost),
                 10 * used_bytes + row.size)

cleaning_benefit(row, age_boost) ==
    LET used_bytes == Zero_ifNone(row.used)
        age_days == Zero_ifNone(row.age)
    IN  Fraction(10 * (row.size - used_bytes) * (age_days + age_boost),
                 10 * used_bytes + row.size)

\* segments.sort(cmp, key=lambda s: s.cleaning_benefit, reverse=True): the
\* largest benefit first, rows of equal benefit in the order they had.
RECURSIVE SortByBenefit(_, _)
SortByBenefit(rows, age_boost) ==
    IF rows = <<>> THEN <<>>
    ELSE LET Benefit(i) == cleaning_benefit(rows[i], age_boost)
             first == CHOOSE i \in 1..Len(rows) :
                          /\ \A j \in 1..Len(rows) :
                                 ~Less(Benefit(i), Benefit(j))
                          /\ \A j \in 1..(i - 1) :
                                 Less(Benefit(j), Benefit(i))
         IN  <<rows[first]>>
                 \o SortByBenefit(SubSeq(rows, 1, first - 1)
                                      \o SubSeq(rows, first + 1, Len(rows)),
                                  age_boost)

\* LocalDatabase.get_segment_cleaning_list(age_boost)
get_segment_cleaning_list(age_boost) ==
    /\ LET rows == SelectSeq(cl.segments,
                             LAMBDA row : row.expire_time = NULL)
       IN  cl' = [cl EXCEPT
                    !.list = SortByBenefit(rows, age_boost),
                    !.call = CleanerCall("get_segment_cleaning_list",
                                         age_boost, "ok")]
    /\ UNCHANGED notCl

\* The rows of segment_info of the model: expired or not, of 1000 or 2000
\* bytes with 250 or 750 in use or no utilization recorded, 0 or 10 days
\* old or without mtime.
SegmentInfoRows(segmentid) ==
    {SegmentRow(segmentid, expire_time, size, used, age) :
        expire_time \in {NULL, 1}, size \in {1000, 2000},
        used \in {NULL, 250, 750}, age \in {NULL, 0, 10}}

SegmentTables(Rows(_)) ==
    UNION {{segs \in [1..n -> UNION {Rows(i) : i \in 1..n}] :
               \A i \in 1..n : segs[i].segmentid = i}
           : n \in 1..MaxCleanSegs}

InitCleaningList ==
    \E segs \in SegmentTables(SegmentInfoRows) : cl = Database(SnapshotsWithIds({1}), segs, <<>>)

NextCleaningList ==
    \E age_boost \in {0, 7} : get_segment_cleaning_list(age_boost)

\* "select max(snapshotid) from snapshots"
max_snapshotid(snaps) ==
    IF snaps = {} THEN NULL
    ELSE CHOOSE m \in {row.snapshotid : row \in snaps} :
             \A other \in snaps : other.snapshotid <= m

\* "where segmentid = ?"
OfSegment_any(row, id) == TRUE

OfSegment(row, id) == row.segmentid = id

\* The rows of a table after an UPDATE: Set(row) for the rows of Where.
Update(table, Where(_), Set(_)) ==
    [i \in 1..Len(table) |->
        IF Where(table[i]) THEN Set(table[i]) ELSE table[i]]

\* The tables after mark_segment_expired(id).
Marked(db, id) ==
    LET last_snapshotid == max_snapshotid(db.snapshots)
    IN  [db EXCEPT
           !.segments =
               Update(@, LAMBDA row : OfSegment(row, id),
                      LAMBDA row : [row EXCEPT
                                      !.expire_time = last_snapshotid]),
           !.block_index =
               Update(@, LAMBDA row : OfSegment(row, id),
                      LAMBDA row : [row EXCEPT !.expired = 0]),
           !.marked = @ \cup {id}]

\* LocalDatabase.mark_segment_expired(segment), with the id of a segment
\* or its SegmentInfo.
mark_segment_expired(id) ==
    /\ cl' = [Marked(cl, id) EXCEPT
                 !.call = CleanerCall("mark_segment_expired", id, "ok")]
    /\ UNCHANGED notCl

\* The rows of segments and of block_index for the marking: segments
\* expired by an earlier run or not, blocks not expired or in bucket 2.
MarkSegmentRows(segmentid) ==
    {SegmentRow(segmentid, expire_time, 1000, 250, 10) :
        expire_time \in {NULL, 1}}

BlockTables(rows) == UNION {[1..n -> rows] : n \in 0..MaxCleanBlocks}

InitMark ==
    \E ids \in SUBSET {1, 2}, segs \in SegmentTables(MarkSegmentRows),
       blocks \in BlockTables({BlockRow(segmentid, expired, 0 - 1, 1) :
                                  segmentid \in 1..MaxCleanSegs,
                                  expired \in {NULL, 2}}) :
        cl = Database(SnapshotsWithIds(ids), segs, blocks)

NextMark == \E id \in 1..MaxCleanSegs : mark_segment_expired(id)

\* balance_expired_objects.  Sizes are in units of 100 bytes and
\* timestamps in whole days, now being day 0; every comparison of the
\* method is between sizes only or between ages only.
MIN_AGE == 4

RECURSIVE SumOf(_)
SumOf(numbers) ==
    IF numbers = <<>> THEN 0 ELSE Head(numbers) + SumOf(Tail(numbers))

Sum(list, F(_)) == SumOf([i \in 1..Len(list) |-> F(list[i])])

Expired(row) == row.expired # NULL

\* "select avg(size) from segments where segmentid in (select distinct
\* segmentid from block_index where expired is not null)", as a fraction;
\* 0 for the NULL of no row selected, which "if not" treats like 0.
segment_size_estimate(db) ==
    LET ids == {row.segmentid : row \in {r \in Elements(db.block_index) :
                                            Expired(r)}}
        rows == SelectSeq(db.segments, LAMBDA row : row.segmentid \in ids)
    IN  IF rows = <<>> THEN Fraction(0, 1)
        ELSE Fraction(Sum(rows, LAMBDA row : row.size), Len(rows))

\* round(now - timestamp)
Age(row) == 0 - row.timestamp

\* The distribution: the ages of the rows with expired = 0, and the
\* bytes of the rows of an age.
Ages(blocks) == {Age(row) : row \in {r \in Elements(blocks) : r.expired = 0}}
BytesOfAge(blocks, age) ==
    Sum(blocks, LAMBDA row : IF row.expired = 0 /\ Age(row) = age
                             THEN row.size ELSE 0)

\* The ages from the oldest to the youngest: distribution.reverse()
RECURSIVE Descending(_)
Descending(set) ==
    IF set = {} THEN <<>>
    ELSE LET most == CHOOSE x \in set : \A y \in set : y <= x
         IN  <<most>> \o Descending(set \ {most})

CeilDiv(a, b) == (a + b - 1) \div b

\* bucket_size >= target_size, where target_size is the larger of
\* 2 * estimate and total_bytes / target_buckets, with
\* target_buckets = 2 * (total_bytes / estimate) ** 0.4: the second holds
\* when (2 * bucket_size)^5 >= total_bytes^3 * estimate^2.
AtLeastTarget(bucket_size, total_bytes, estimate) ==
    /\ bucket_size * estimate.den >= 2 * estimate.num
    /\ LET twice == 2 * bucket_size
       IN  twice * twice * twice >=
               CeilDiv(total_bytes * total_bytes * total_bytes
                           * estimate.num * estimate.num,
                       twice * twice * estimate.den * estimate.den)

\* bucket_size >= min_size = 1.5 * estimate
AtLeastMin(bucket_size, estimate) ==
    2 * bucket_size * estimate.den >= 3 * estimate.num

\* The loop over the distribution: the cutoffs, the bytes in the bucket
\* being filled, and whether a bucket of young objects was started.
RECURSIVE Group(_, _, _, _, _)
Group(ages, blocks, total_bytes, estimate, s) ==
    IF ages = <<>> THEN s
    ELSE LET age == Head(ages)
             enough == AtLeastTarget(s.bucket_size, total_bytes, estimate)
             cut == enough \/ (age < MIN_AGE /\ ~s.min_age_bucket)
             kept == IF ~enough /\ Len(s.cutoffs) > 0
                     THEN SubSeq(s.cutoffs, 1, Len(s.cutoffs) - 1)
                     ELSE s.cutoffs
             next == [cutoffs |-> IF cut THEN Append(kept, age)
                                  ELSE s.cutoffs,
                      bucket_size |-> (IF cut THEN 0 ELSE s.bucket_size)
                                          + BytesOfAge(blocks, age),
                      min_age_bucket |-> s.min_age_bucket \/ age < MIN_AGE]
         IN  Group(Tail(ages), blocks, total_bytes, estimate, next)

\* The cutoffs that the method chooses, before cutoffs.reverse().
ChosenCutoffs(blocks, estimate) ==
    LET total_bytes == Sum(blocks, LAMBDA row : IF row.expired = 0
                                                THEN row.size ELSE 0)
        s == Group(Descending(Ages(blocks)), blocks, total_bytes, estimate,
                   [cutoffs |-> <<>>, bucket_size |-> 0,
                    min_age_bucket |-> FALSE])
        last == IF AtLeastMin(s.bucket_size, estimate) \/ ~s.min_age_bucket
                THEN <<0 - 1>> ELSE <<>>
    IN  s.cutoffs \o last \o <<0 - 1>>

\* "where round(? - timestamp) > ? and expired is not null"
Older_orEqual(row, cutoff) == Expired(row) /\ Age(row) >= cutoff

Older_reversed(row, cutoff) == Expired(row) /\ Age(row) < cutoff

Older(row, cutoff) == Expired(row) /\ Age(row) > cutoff

\* range(len(cutoffs)) gives place i of the list the number i - 1.
BucketNumber_fromOne(i) == i

BucketNumber(i) == i - 1

\* "where timestamp > ? and expired is not null"
Future_any(row) == row.timestamp > 0

Future(row) == row.timestamp > 0 /\ Expired(row)

\* The updates "set expired = i" for the cutoffs from place i on.
RECURSIVE Assign(_, _, _)
Assign(blocks, cutoffs, i) ==
    IF i > Len(cutoffs) THEN blocks
    ELSE Assign(Update(blocks, LAMBDA row : Older(row, cutoffs[i]),
                       LAMBDA row : [row EXCEPT !.expired = BucketNumber(i)]),
                cutoffs, i + 1)

\* The tables after balance_expired_objects().
Balanced(db) ==
    LET zeroed == Update(db.block_index, Expired,
                         LAMBDA row : [row EXCEPT !.expired = 0])
        estimate == segment_size_estimate(db)
    IN  IF estimate.num = 0
        THEN [db EXCEPT !.block_index = zeroed, !.cutoffs = <<>>]
        ELSE LET clamped == Update(zeroed, Future,
                                LAMBDA row : [row EXCEPT !.timestamp = 0])
                 cutoffs == Reversed(ChosenCutoffs(clamped, estimate))
             IN  [db EXCEPT !.block_index = Assign(clamped, cutoffs, 1),
                            !.cutoffs = cutoffs]

\* LocalDatabase.balance_expired_objects()
balance_expired_objects ==
    /\ cl' = [Balanced(cl) EXCEPT
                 !.call = CleanerCall("balance_expired_objects", 0, "ok")]
    /\ UNCHANGED notCl

\* The databases for the balancing: a segment of 100 or 500 bytes with
\* all the blocks, other segments of 1000 bytes without blocks; blocks
\* not expired, expired or in bucket 3 by an earlier run, written
\* tomorrow or 1, 2 or 10 days ago, of 100 or 1000 bytes.  The rows of
\* block_index stand in one order per table.
BalanceSegmentRows(segmentid) ==
    {SegmentRow(segmentid, NULL, size, NULL, NULL) :
        size \in IF segmentid = 1 THEN {1, 5} ELSE {10}}

BalanceBlockRows ==
    {BlockRow(1, expired, timestamp, size) :
        expired \in {NULL, 0, 3}, timestamp \in {1, 0 - 1, 0 - 2, 0 - 10},
        size \in {1, 10}}

RowKey(row) == ((row.expired + 1) * 100 + row.timestamp + 10) * 100 + row.size

InitBalance ==
    \E segs \in SegmentTables(BalanceSegmentRows),
       blocks \in BlockTables(BalanceBlockRows) :
        /\ \A i \in 1..(Len(blocks) - 1) :
               RowKey(blocks[i]) <= RowKey(blocks[i + 1])
        /\ cl = Database(SnapshotsWithIds({1}), segs, blocks)

NextBalance == balance_expired_objects

\* cmd_clean of cmd_util.py.  Every call of a method of LocalDatabase is
\* one step; a statement that sqlite3 refuses raises an exception that
\* nothing catches, which ends the run.

\* LocalDatabase.list_schemes(): "select distinct scheme from snapshots",
\* sorted.
SchemeNames == <<"a", "b">>

list_schemes_ofEachSnapshot(db) ==
    LET Count(scheme) ==
            Cardinality({row \in db.snapshots : row.scheme = scheme})
    IN  [i \in 1..Count("a") |-> "a"] \o [i \in 1..Count("b") |-> "b"]

list_schemes(db) ==
    SelectSeq(SchemeNames,
              LAMBDA scheme : \E row \in db.snapshots : row.scheme = scheme)

\* "... from snapshots where scheme = ? order by age"
RECURSIVE ByAge(_)
ByAge(rows) ==
    IF rows = {} THEN <<>>
    ELSE LET youngest == CHOOSE row \in rows :
                             \A other \in rows : row.age <= other.age
         IN  <<youngest>> \o ByAge(rows \ {youngest})

\* The ids that the loop of prune_old_snapshots deletes.
RECURSIVE Pruned(_, _, _, _)
Pruned(rows, intent, max_intent, first) ==
    IF rows = <<>> THEN {}
    ELSE LET row == Head(rows)
             can_delete == row.intent < max_intent \/ row.intent = intent
         IN  (IF can_delete /\ ~first THEN {row.snapshotid} ELSE {})
                 \cup Pruned(Tail(rows), intent,
                             IF row.intent > max_intent THEN row.intent
                             ELSE max_intent,
                             FALSE)

\* The tables after garbage_collect(), statement by statement.
Collected(db) ==
    LET util == GcUtilization(db.segment_utilization, db.snapshots)
        segs == SelectSeq(db.segments,
                          LAMBDA g : \E u \in util :
                                        u.segmentid = g.segmentid)
        blocks == SelectSeq(db.block_index,
                            LAMBDA b : \E i \in 1..Len(segs) :
                                          segs[i].segmentid = b.segmentid)
    IN  [db EXCEPT !.segment_utilization = util, !.segments = segs,
                   !.block_index = blocks]

\* The tables after prune_old_snapshots(scheme, intent), which ends with
\* garbage_collect().
prune_old_snapshots(db, scheme, intent) ==
    LET rows == ByAge({row \in db.snapshots : row.scheme = scheme})
        deleted == Pruned(rows, intent, intent, TRUE)
    IN  Collected([db EXCEPT
                     !.snapshots = {row \in @ :
                                       row.snapshotid \notin deleted}])

\* "if s.cleaning_benefit > clean_threshold", clean_threshold being 7.0
Worthwhile(row) == Less(Fraction(7, 1), cleaning_benefit(row, 0))

\* db = cumulus.LocalDatabase(options.localdb); db.list_schemes()
Clean_list_schemes ==
    /\ cl.run.pc = "list_schemes"
    /\ cl' = [cl EXCEPT
                 !.run.pc = "prune_old_snapshots",
                 !.run.schemes = list_schemes(cl),
                 !.run.log = Append(@, "list_schemes")]
    /\ UNCHANGED notCl

\* for s in db.list_schemes(): db.prune_old_snapshots(s, intent)
Clean_prune_old_snapshots ==
    /\ cl.run.pc = "prune_old_snapshots"
    /\ cl.run.schemes # <<>>
    /\ cl' = [prune_old_snapshots(cl, Head(cl.run.schemes), cl.run.intent)
                 EXCEPT !.run.schemes = Tail(@),
                        !.run.log = @ \o <<"prune_old_snapshots",
                                           "garbage_collect">>]
    /\ UNCHANGED notCl

\* db.get_segment_cleaning_list(), after the last scheme
Clean_get_segment_cleaning_list ==
    /\ cl.run.pc = "prune_old_snapshots"
    /\ cl.run.schemes = <<>>
    /\ LET list == SortByBenefit(
                       SelectSeq(cl.segments,
                                 LAMBDA row : row.expire_time = NULL), 0)
       IN  cl' = [cl EXCEPT
                    !.list = list,
                    !.run.pc = "mark_segment_expired",
                    !.run.segments = list,
                    !.run.log = Append(@, "get_segment_cleaning_list")]
    /\ UNCHANGED notCl

\* db.mark_segment_expired(s), for the next segment worth cleaning
Clean_mark_segment_expired ==
    /\ cl.run.pc = "mark_segment_expired"
    /\ cl.run.segments # <<>>
    /\ Worthwhile(Head(cl.run.segments))
    /\ cl' = [Marked(cl, Head(cl.run.segments).segmentid) EXCEPT
                 !.run.segments = Tail(@),
                 !.run.log = Append(@, "mark_segment_expired")]
    /\ UNCHANGED notCl

\* db.balance_expired_objects(), after the break or the end of the list
Clean_balance_expired_objects ==
    /\ cl.run.pc = "mark_segment_expired"
    /\ cl.run.segments # <<>> => ~Worthwhile(Head(cl.run.segments))
    /\ cl' = [Balanced(cl) EXCEPT
                 !.run.pc = "commit",
                 !.run.log = Append(@, "balance_expired_objects")]
    /\ UNCHANGED notCl

\* db.commit()
Clean_commit ==
    /\ cl.run.pc = "commit"
    /\ cl' = [cl EXCEPT !.run.pc = "done", !.run.log = Append(@, "commit")]
    /\ UNCHANGED notCl

\* The call that is due raises sqlite3.Error: cmd_clean is left.
Clean_raise ==
    /\ cl.run.pc \in {"list_schemes", "prune_old_snapshots",
                       "mark_segment_expired", "commit"}
    /\ cl' = [cl EXCEPT !.run.pc = "raised", !.run.log = Append(@, "raise")]
    /\ UNCHANGED notCl

NextClean ==
    \/ Clean_list_schemes
    \/ Clean_prune_old_snapshots
    \/ Clean_get_segment_cleaning_list
    \/ Clean_mark_segment_expired
    \/ Clean_balance_expired_objects
    \/ Clean_commit
    \/ Clean_raise

\* The databases for cmd_clean: snapshot 1 of scheme "a" or none,
\* snapshot 2 of scheme "a" or "b", daily or weekly, or none; segments of
\* 1000 bytes, 10 days old, with 200 or 800 bytes in use, expired by an
\* earlier run or not, each used by snapshot 1, by snapshot 2 or by none,
\* and with one block of 500 bytes; --intent 1 or 7.
CleanSnapshotTables ==
    {first \cup second :
        first \in {{}, {SnapshotRow(1, "a", 1, 9)}},
        second \in {{}} \cup {{SnapshotRow(2, scheme, intent, 8)} :
                                 scheme \in {"a", "b"}, intent \in {1, 7}}}

CleanSegmentRows(segmentid) ==
    {SegmentRow(segmentid, expire_time, 10, used, 10) :
        expire_time \in {NULL, 1}, used \in {2, 8}}

InitClean ==
    \E snaps \in CleanSnapshotTables,
       segs \in SegmentTables(CleanSegmentRows), intent \in {1, 7} :
        \E user \in [1..Len(segs) -> 0..2] :
            cl = [Database(snaps, segs,
                           [i \in 1..Len(segs) |-> BlockRow(i, NULL, 0 - 10, 5)])
                    EXCEPT
                    !.segment_utilization =
                        {[snapshotid |-> user[i], segmentid |-> i] :
                            i \in {j \in 1..Len(segs) : user[j] # 0}},
                    !.run = CleanRun("list_schemes", intent, <<>>, <<>>,
                                     <<>>)]

-----------------------------------------------------------------------------
(* CumulusStore.filter_data with a filter command, and its consumer.       *)

\* The raw stream has up to MaxRaw blocks of BLOCK_SIZE bytes, the filter
\* writes up to MaxExpand blocks for each block it reads, and a pipe
\* holds MaxPipe blocks.
MaxRaw == 2
MaxExpand == 2
MaxPipe == 1

\* The raw blocks not yet read by the thread (src), where copy_thread
\* stands, the blocks in the pipe to the child (stdin), the child, its
\* exit status, the blocks it has still to write, the blocks in the pipe
\* from the child (stdout), the blocks the consumer has read, how the
\* consumer's read ended, and whether p.wait() has returned.
Filter(raw, expand, copy_thread) ==
    [raw |-> raw, expand |-> expand, src |-> raw,
     copy_thread |-> copy_thread, stdin |-> 0, child |-> "running",
     returncode |-> NULL, pending |-> 0, stdout |-> 0, read |-> 0,
     result |-> "none", reaped |-> FALSE]

IdleFd == fd = Filter(0, 0, "none")

\* block = src.read(BLOCK_SIZE); if len(block) == 0: break
copy_thread_read ==
    /\ fd.copy_thread = "read"
    /\ fd' = IF fd.src = 0 THEN [fd EXCEPT !.copy_thread = "close"]
             ELSE [fd EXCEPT !.src = @ - 1, !.copy_thread = "write"]
    /\ UNCHANGED notFd

\* dst.write(block): waits while the pipe is full, and raises IOError
\* (EPIPE) once the child has exited; nothing catches it in the thread.
copy_thread_write ==
    /\ fd.copy_thread = "write"
    /\ \/ /\ fd.child = "running"
          /\ fd.stdin < MaxPipe
          /\ fd' = [fd EXCEPT !.stdin = @ + 1, !.copy_thread = "read"]
       \/ /\ fd.child = "exited"
          /\ fd' = [fd EXCEPT !.copy_thread = "raised"]
    /\ UNCHANGED notFd

\* src.close(); dst.close()
copy_thread_close ==
    /\ fd.copy_thread = "close"
    /\ fd' = [fd EXCEPT !.copy_thread = "wait"]
    /\ UNCHANGED notFd

\* p.wait(): returns when the child has exited; the status is dropped.
copy_thread_wait ==
    /\ fd.copy_thread = "wait"
    /\ fd.child = "exited"
    /\ fd' = [fd EXCEPT !.copy_thread = "done", !.reaped = TRUE]
    /\ UNCHANGED notFd

\* The filter command reads a block of its standard input.
Child_read ==
    /\ fd.child = "running"
    /\ fd.pending = 0
    /\ fd.stdin > 0
    /\ fd' = [fd EXCEPT !.stdin = @ - 1, !.pending = fd.expand]
    /\ UNCHANGED notFd

\* The filter command writes a block, waiting while the pipe is full.
Child_write ==
    /\ fd.child = "running"
    /\ fd.pending > 0
    /\ fd.stdout < MaxPipe
    /\ fd' = [fd EXCEPT !.pending = @ - 1, !.stdout = @ + 1]
    /\ UNCHANGED notFd

\* The filter command reads the end of its input, the thread having
\* closed dst, and exits.
Child_exit ==
    /\ fd.child = "running"
    /\ fd.pending = 0
    /\ fd.stdin = 0
    /\ fd.copy_thread \in {"wait", "done"}
    /\ \E returncode \in {0, 1} :
           fd' = [fd EXCEPT !.child = "exited", !.returncode = returncode]
    /\ UNCHANGED notFd

\* The filter command gives up before the end of its input.
Child_fail ==
    /\ fd.child = "running"
    /\ fd' = [fd EXCEPT !.child = "exited", !.returncode = 1,
                        !.pending = 0, !.stdin = 0]
    /\ UNCHANGED notFd

\* _thread.start_new_thread(copy_thread, ...): the caller goes on
\* whatever the thread does.
Started_afterCopy(copy_thread) == copy_thread \in {"done", "raised"}

Started(copy_thread) == TRUE

\* load_segment: tarfile reads a block of the returned file.
Consumer_read ==
    /\ Started(fd.copy_thread)
    /\ fd.result = "none"
    /\ fd.stdout > 0
    /\ fd' = [fd EXCEPT !.stdout = @ - 1, !.read = @ + 1]
    /\ UNCHANGED notFd

\* load_segment: tarfile reads the end of the file.  It raises ReadError
\* for an empty file, and for an archive cut short either raises
\* ReadError or ends the iteration, depending on where the cut is.
Consumer_eof ==
    /\ Started(fd.copy_thread)
    /\ fd.result = "none"
    /\ fd.stdout = 0
    /\ fd.child = "exited"
    /\ \E result \in {"ok", "ReadError"} :
           /\ fd.read = 0 => result = "ReadError"
           /\ fd.read = fd.raw * fd.expand => result = "ok"
           /\ fd' = [fd EXCEPT !.result = result]
    /\ UNCHANGED notFd

NextFilterLive ==
    \/ copy_thread_read
    \/ copy_thread_write
    \/ copy_thread_close
    \/ copy_thread_wait
    \/ Child_read
    \/ Child_write
    \/ Child_exit
    \/ Consumer_read
    \/ Consumer_eof

NextFilter == NextFilterLive \/ Child_fail

\* filter_data has returned: the child and the thread are started.
InitFilter ==
    \E raw \in 1..MaxRaw, expand \in 1..MaxExpand :
        fd = Filter(raw, expand, "read")

-----------------------------------------------------------------------------
(* parse: the generator that reads "Key: Value" stanzas.                   *)

\* An input has up to MaxLines lines.
MaxLines == 3

\* A line is a sequence of characters: "a" and "-" are matched by [-\w],
\* " " by \s, ":" is the colon, "#" is none of these, and "\n" ends a line.
WordCharacter(c) == c \in {"a", "-"}
Whitespace(c) == c = " "

\* The lines of the model: empty, key lines (with and without whitespace
\* after the colon, with an empty value, with the key "-"), indented
\* lines (one that looks like a key line), lines that are neither, some of
\* them with their newline.
ParseLines ==
    {<<>>, <<"\n">>,
     <<"a", ":", "#">>, <<"a", ":", " ", "#", "\n">>, <<"a", "a", ":">>,
     <<"-", ":", "a">>,
     <<" ", "#">>, <<" ">>, <<" ", "a", ":", "#", "\n">>,
     <<"#">>, <<":", "a">>, <<"a">>}

\* "if len(l) > 0 and l[-1] == '\n': l = l[:-1]"
Stripped(l) ==
    IF Len(l) > 0 /\ l[Len(l)] = "\n" THEN SubSeq(l, 1, Len(l) - 1) ELSE l

\* The predicates given as terminate: none, the one of the callers
\* (lambda l: len(l) == 0), one that is true of lines that would continue
\* a value, and one that is true of lines that would be key lines.
TerminatePredicates == {"None", "empty", "blank", "dash"}

terminate(predicate, l) ==
    CASE predicate = "None" -> FALSE
      [] predicate = "empty" -> Len(l) = 0
      [] predicate = "blank" -> \A i \in 1..Len(l) : Whitespace(l[i])
      [] predicate = "dash" -> Len(l) > 0 /\ l[1] = "-"

\* re.match(r"^([-\w]+):\s*(.*)$", l): the longest run of [-\w] at the
\* start, which must not be empty and must be followed by the colon;
\* group 2 starts after the whitespace that follows the colon.
Run(l, start, Class(_)) ==
    CHOOSE n \in 0..(Len(l) - start + 1) :
        /\ \A i \in start..(start + n - 1) : Class(l[i])
        /\ start + n <= Len(l) => ~Class(l[start + n])

Matches(l) ==
    LET n == Run(l, 1, WordCharacter)
    IN  n >= 1 /\ Len(l) > n /\ l[n + 1] = ":"

Group1(l) == SubSeq(l, 1, Run(l, 1, WordCharacter))

Group2(l) ==
    LET colon == Run(l, 1, WordCharacter) + 1
    IN  SubSeq(l, colon + 1 + Run(l, colon + 1, Whitespace), Len(l))

\* last_key = None; a key has at least one character.
None == <<>>

\* dict = {}
EmptyDict == [key \in {} |-> <<>>]

\* "if len(dict) > 0: yield dict"
Yield_always(yielded, dict) == Append(yielded, dict)

Yield(yielded, dict) ==
    IF DOMAIN dict # {} THEN Append(yielded, dict) ELSE yielded

\* "last_key = None" after a line that terminates the stanza.
AfterTerminate_kept(last_key) == last_key

AfterTerminate(last_key) == None

\* A run of parse(lines, terminate): the lines not yet read, the
\* predicate, dict and last_key, the stanzas yielded, and whether the
\* generator has returned.
Parse(lines, predicate) ==
    [lines |-> lines, terminate |-> predicate, dict |-> EmptyDict,
     last_key |-> None, yielded |-> <<>>, returned |-> FALSE]

IdlePs == ps = [Parse(<<>>, "None") EXCEPT !.returned = TRUE]

\* One turn of "for l in lines".
parse_line ==
    /\ ~ps.returned
    /\ ps.lines # <<>>
    /\ LET l == Stripped(Head(ps.lines))
           rest == [ps EXCEPT !.lines = Tail(@)]
       IN  ps' =
             IF terminate(ps.terminate, l)
             THEN [rest EXCEPT !.yielded = Yield(@, ps.dict),
                               !.dict = EmptyDict,
                               !.last_key = AfterTerminate(@)]
             ELSE IF Matches(l)
             THEN [rest EXCEPT
                     !.dict = [key \in DOMAIN @ \cup {Group1(l)} |->
                                  IF key = Group1(l) THEN Group2(l)
                                  ELSE @[key]],
                     !.last_key = Group1(l)]
             ELSE IF Len(l) > 0 /\ Whitespace(l[1]) /\ ps.last_key # None
             THEN [rest EXCEPT !.dict[ps.last_key] = @ \o l]
             ELSE [rest EXCEPT !.last_key = None]
    /\ UNCHANGED notPs

\* The statement after the loop, and the end of the generator.
parse_end ==
    /\ ~ps.returned
    /\ ps.lines = <<>>
    /\ ps' = [ps EXCEPT !.yielded = Yield(@, ps.dict), !.returned = TRUE]
    /\ UNCHANGED notPs

NextParse == parse_line \/ parse_end

InitParse ==
    \E n \in 0..MaxLines :
        \E lines \in [1..n -> ParseLines],
           predicate \in TerminatePredicates :
            ps = Parse(lines, predicate)

-----------------------------------------------------------------------------
(* prune_localdb of main.py, with LocalDatabase.list_snapshots and the     *)
(* RetentionEngine of retention.py, on the tables of the local database.   *)

\* Snapshots are named by their time: the names 1..MaxPruneNames are
\* timestamps in half days, in the order of the strings "%Y%m%dT%H%M%S".
MaxPruneNames == 3

\* datetime.utcnow() of the run: half a day after the last name.
UtcNow == MaxPruneNames + 1

\* _backup_classes: the partition of a timestamp for the classes "all"
\* (lambda t: t) and "daily" (lambda t: t.date()).
BackupClasses == {"all", "daily"}

Partition(backup_class, timestamp) ==
    IF backup_class = "all" THEN timestamp ELSE timestamp \div 2

\* _last_snapshots[backup_class] after add_policy: (None, None, False)
NoLastSnapshot == [partition |-> NULL, snapshot |-> NULL, retain |-> FALSE]

\* consider_snapshot(snapshot) for one class with its retention period.
consider_snapshot(last, backup_class, retention_period, snapshot) ==
    LET partition == Partition(backup_class, snapshot)
    IN  IF last.partition # partition
        THEN [partition |-> partition, snapshot |-> snapshot,
              retain |-> UtcNow - snapshot < retention_period]
        ELSE last

\* _last_snapshots[backup_class] after consider_snapshot for every
\* snapshot of the list in turn.
RECURSIVE Considered(_, _, _, _)
Considered(last, backup_class, retention_period, list) ==
    IF list = <<>> THEN last
    ELSE Considered(consider_snapshot(last, backup_class, retention_period,
                                      Head(list)),
                    backup_class, retention_period, Tail(list))

\* last_snapshots().values() for the policies (class -> period)
last_snapshots(policies, list) ==
    {Considered(NoLastSnapshot, c, policies[c], list).snapshot :
        c \in {k \in DOMAIN policies :
                  Considered(NoLastSnapshot, k, policies[k], list).retain}}

\* "select name from snapshots": the statement does not use the scheme.
NamesOf(rows, scheme) == {r.name : r \in rows}

\* A call of prune_localdb or list_snapshots: its arguments, the list
\* that list_snapshots returned, retained and evicted, and the snapshots
\* table before the call.
PruneCall(op, scheme, list, retained, evicted, before) ==
    [op |-> op, scheme |-> scheme, list |-> list, retained |-> retained,
     evicted |-> evicted, before |-> before]

IdlePr == pr = PruneCall("none", "none", <<>>, {}, {}, {})

\* LocalDatabase.list_snapshots(scheme)
list_snapshots(scheme) ==
    /\ pr' = PruneCall("list_snapshots", scheme,
                       Sorted(NamesOf(snapshots, scheme)), {}, {},
                       snapshots)
    /\ UNCHANGED <<dbVars, gcVars, storeVars, hist, md, ver, rs, sp, cl, fd,
                   ps, uri>>

\* retained: the last snapshot of every class that is within its period,
\* and the last snapshot of the list.
Retained(policies, list, next_snapshot) ==
    last_snapshots(policies, list \o next_snapshot) \cup {list[Len(list)]}

\* prune_localdb(backup_config, scheme, next_snapshot): next_snapshot is
\* <<>> for None; the retention of the scheme is policies.
prune_localdb(scheme, policies, next_snapshot) ==
    LET list == Sorted(NamesOf(snapshots, scheme))
    IN  IF Len(list) <= 1
        THEN /\ pr' = PruneCall("prune_localdb", scheme, list, {}, {},
                                snapshots)
             /\ UNCHANGED <<dbVars, gcVars, storeVars, hist, md, ver, rs, sp,
                            cl, fd, ps, uri>>
        ELSE LET retained == Retained(policies, list, next_snapshot)
                 evicted == {s \in NamesOf(snapshots, scheme) :
                                s \notin retained}
                 snaps == {r \in snapshots :
                              ~(r.scheme = scheme /\ r.name \in evicted)}
                 util == GcUtilization(segment_utilization, snaps)
                 segs == GcSegments(segments, util)
                 blocks == GcBlockIndex(block_index, segs)
                 sigs == GcSignatures(subblock_signatures, blocks)
             IN  /\ pr' = PruneCall("prune_localdb", scheme, list, retained,
                                    evicted, snapshots)
                 /\ snapshots' = snaps
                 /\ segment_utilization' = util
                 /\ segments' = segs
                 /\ block_index' = blocks
                 /\ subblock_signatures' = sigs
                 /\ dbOp' = "garbage_collect"
                 /\ gcAgain' = FALSE
                 /\ dbDeleted' =
                      [snapshots |-> (snaps # snapshots),
                       segment_utilization |-> (util # segment_utilization),
                       segments |-> (segs # segments),
                       block_index |-> (blocks # block_index),
                       subblock_signatures |->
                           (sigs # subblock_signatures)]
                 /\ UNCHANGED <<gcVars, storeVars, hist, md, ver, rs, sp, cl,
                                fd, ps, uri>>

\* The retention of a scheme: none, every snapshot or one snapshot a
\* day for 5 days, one a day for 1 day, or both classes.
RetentionPolicies ==
    {[c \in {} |-> 0], [c \in {"all"} |-> 10], [c \in {"daily"} |-> 10],
     [c \in {"daily"} |-> 2],
     [c \in BackupClasses |-> IF c = "all" THEN 2 ELSE 10]}

NextPrune ==
    \/ \E scheme \in Schemes : list_snapshots(scheme)
    \/ \E scheme \in Schemes, policies \in RetentionPolicies,
          next_snapshot \in {<<>>, <<UtcNow>>} :
           prune_localdb(scheme, policies, next_snapshot)

\* The databases for the pruning: snapshot i is named i and belongs to
\* either scheme; every snapshot uses the segment of its number, or only
\* snapshot 1 does, or none.
InitPrune ==
    /\ \E scheme \in [1..MaxPruneNames -> Schemes \cup {"none"}] :
           snapshots = {[snapshotid |-> i, scheme |-> scheme[i], name |-> i] :
                           i \in {j \in 1..MaxPruneNames :
                                     scheme[j] # "none"}}
    /\ \E users \in {{}, {1}, 1..MaxPruneNames} :
           segment_utilization =
               {[snapshotid |-> i, segmentid |-> i] : i \in users}
    /\ segments = {[segmentid |-> i] : i \in 1..MaxPruneNames}
    /\ block_index = {}
    /\ subblock_signatures = {}
    /\ dbOp = "init"
    /\ gcAgain = FALSE
    /\ dbDeleted = NoneDeleted
    /\ pr = PruneCall("none", "none", <<>>, {}, {}, {})

-----------------------------------------------------------------------------
(* uri_encode_raw and uri_decode_raw of util.py.  A byte string and a text *)
(* are sequences of numbers: the bytes, and the codes of the characters.   *)

\* A byte string has up to MaxUriBytes bytes.
MaxUriBytes == 3

\* The bytes of the model: space, "%", "+", ",", the digits "2" and "5",
\* "@", the letter "e", "~", DEL and the byte e9.
RawBytes == {32, 37, 43, 44, 50, 53, 64, 101, 126, 127, 233}

\* "%02x": the character of a hexadecimal digit, in lower case.
HexDigit(n) == IF n < 10 THEN 48 + n ELSE 87 + n

\* [0-9a-fA-F]
IsHex(c) == c \in (48..57) \cup (65..70) \cup (97..102)

\* int(text, 16) of one digit
HexValue(c) ==
    IF c \in 48..57 THEN c - 48
    ELSE IF c \in 65..70 THEN c - 55 ELSE c - 87

\* hex_encode(c) of uri_encode_raw
hex_encode_percentLiteral(c) ==
    IF c > 36 /\ c < 127 /\ c # 64 THEN <<c>>
    ELSE <<37, HexDigit(c \div 16), HexDigit(c % 16)>>

hex_encode(c) ==
    IF c > 43 /\ c < 127 /\ c # 64 THEN <<c>>
    ELSE <<37, HexDigit(c \div 16), HexDigit(c % 16)>>

\* "".join(hex_encode(c) for c in six.iterbytes(s))
RECURSIVE Encoded(_)
Encoded(s) ==
    IF s = <<>> THEN <<>> ELSE hex_encode(Head(s)) \o Encoded(Tail(s))

\* re.sub(br"%([0-9a-fA-F]{2})", hex_decode, s): the matches from left
\* to right, what is between them unchanged.
RECURSIVE Decoded(_)
Decoded(s) ==
    IF s = <<>> THEN <<>>
    ELSE IF Len(s) >= 3 /\ s[1] = 37 /\ IsHex(s[2]) /\ IsHex(s[3])
    THEN <<16 * HexValue(s[2]) + HexValue(s[3])>>
             \o Decoded(SubSeq(s, 4, Len(s)))
    ELSE <<Head(s)>> \o Decoded(Tail(s))

\* A byte string, its encoding, and the decoding of that.
Uri(op, bytes, encoded, decoded) ==
    [op |-> op, bytes |-> bytes, encoded |-> encoded, decoded |-> decoded]

IdleUri == uri = Uri("none", <<>>, <<>>, <<>>)

\* uri_encode_raw(s)
uri_encode_raw ==
    /\ uri.op = "new"
    /\ uri' = [uri EXCEPT !.op = "uri_encode_raw",
                          !.encoded = Encoded(uri.bytes)]
    /\ UNCHANGED notUri

\* uri_decode_raw(s) of the encoded text
uri_decode_raw ==
    /\ uri.op = "uri_encode_raw"
    /\ uri' = [uri EXCEPT !.op = "uri_decode_raw",
                          !.decoded = Decoded(uri.encoded)]
    /\ UNCHANGED notUri

NextUri == uri_encode_raw \/ uri_decode_raw

InitUri ==
    \E n \in 0..MaxUriBytes :
        \E bytes \in [1..n -> RawBytes] : uri = Uri("new", bytes, <<>>, <<>>)

\* Marking and listing in any order, on a database with no, one or two
\* snapshots.
InitMarkList ==
    \E ids \in SUBSET {1, 2}, segs \in SegmentTables(MarkSegmentRows),
       blocks \in {<<>>, <<BlockRow(1, NULL, 0 - 1, 1)>>} :
        cl = Database(SnapshotsWithIds(ids), segs, blocks)

MarkList_mark_segment_expired ==
    \E id \in 1..MaxCleanSegs : mark_segment_expired(id)

MarkList_get_segment_cleaning_list ==
    \E age_boost \in {0, 7} : get_segment_cleaning_list(age_boost)

NextMarkList ==
    \/ MarkList_mark_segment_expired
    \/ MarkList_get_segment_cleaning_list


-----------------------------------------------------------------------------
(* Components that a specification does not use.                           *)

IdleNew == IdlePs /\ IdlePr /\ IdleUri

Idle == IdleHist /\ IdleMd /\ IdleVer /\ IdleRs /\ IdleSp /\ IdleCl /\ IdleFd /\ IdleNew

-----------------------------------------------------------------------------
(* Specifications.                                                         *)

\* The local database under any sequence of its methods.

InitSpecDB == InitDB /\ IdleGC /\ IdleStore /\ Idle
SpecDB == InitSpecDB /\ [][NextDB]_vars

\* The same, started from a consistent database.
InitSpecDBConsistent == InitDBConsistent /\ IdleGC /\ IdleStore /\ Idle
SpecDBConsistent == InitSpecDBConsistent /\ [][NextDB]_vars

\* cmd_garbage_collect on any backend.
InitSpecGC == InitGC /\ IdleDB /\ IdleStore /\ Idle
SpecGC == InitSpecGC /\ [][NextGC]_vars

\* CumulusStore.get of every form of reference to one stored object.
InitSpecGet == InitGet /\ IdleDB /\ IdleGC /\ Idle
SpecGet == InitSpecGet /\ [][NextGet]_vars

\* Loads of seventeen segments through a cache of sixteen.
InitSpecLru ==
    InitLru /\ IdleDB /\ IdleGC /\ IdleMd /\ IdleVer /\ IdleRs /\ IdleSp
    /\ IdleCl /\ IdleFd /\ IdleNew
SpecLru == InitSpecLru /\ [][NextLru]_vars

\* The gets of cmd_verify_snapshots over several snapshots.
InitSpecAccessed ==
    InitAccessed /\ IdleDB /\ IdleGC /\ IdleMd /\ IdleVer /\ IdleRs /\ IdleSp
    /\ IdleCl /\ IdleFd /\ IdleNew
SpecAccessed == InitSpecAccessed /\ [][NextAccessed]_vars

\* A traversal of a metadata log or of a block list.
InitSpecMd ==
    InitMd /\ IdleDB /\ IdleGC /\ IdleStore /\ IdleHist /\ IdleVer /\ IdleRs
           /\ IdleSp
    /\ IdleCl /\ IdleFd /\ IdleNew
SpecMd == InitSpecMd /\ [][NextMd]_vars

\* The traversal of a store with cycles; a traversal that has started
\* keeps running, it waits for nothing.
InitSpecMdCycle ==
    InitMdCycle /\ IdleDB /\ IdleGC /\ IdleStore /\ IdleHist /\ IdleVer
                /\ IdleRs /\ IdleSp /\ IdleCl /\ IdleFd /\ IdleNew
SpecMdCycle ==
    InitSpecMdCycle /\ [][NextMd]_vars /\ WF_vars(NextMd)

\* The version gate on every Format value.
InitSpecVer ==
    InitVer /\ IdleDB /\ IdleGC /\ IdleStore /\ IdleHist /\ IdleMd /\ IdleRs
            /\ IdleSp
    /\ IdleCl /\ IdleFd /\ IdleNew
SpecVer == InitSpecVer /\ [][NextVer]_vars

\* cmd_restore_snapshot, for the extraction of the files.
InitSpecRestore ==
    InitRestore /\ IdleDB /\ IdleGC /\ IdleStore /\ IdleHist /\ IdleMd
                /\ IdleVer /\ IdleSp
    /\ IdleCl /\ IdleFd /\ IdleNew
SpecRestore == InitSpecRestore /\ [][NextRs]_vars

\* cmd_restore_snapshot, for the steps of Phase 3/4.
InitSpecRestoreSteps ==
    InitRestoreSteps /\ IdleDB /\ IdleGC /\ IdleStore /\ IdleHist /\ IdleMd
                     /\ IdleVer /\ IdleSp
    /\ IdleCl /\ IdleFd /\ IdleNew
SpecRestoreSteps == InitSpecRestoreSteps /\ [][NextRs]_vars

\* SearchPath.get and SearchPath.stat.
InitSpecSp ==
    InitSp /\ IdleDB /\ IdleGC /\ IdleStore /\ IdleHist /\ IdleMd /\ IdleVer
           /\ IdleRs
    /\ IdleCl /\ IdleFd /\ IdleNew
SpecSp == InitSpecSp /\ [][NextSp]_vars

\* SearchPath.list.
InitSpecSpList ==
    InitSpList /\ IdleDB /\ IdleGC /\ IdleStore /\ IdleHist /\ IdleMd
               /\ IdleVer /\ IdleRs
    /\ IdleCl /\ IdleFd /\ IdleNew
SpecSpList == InitSpecSpList /\ [][NextSpList]_vars

InitSpecIdleButCl ==
    IdleDB /\ IdleGC /\ IdleStore /\ IdleHist /\ IdleMd /\ IdleVer /\ IdleRs
           /\ IdleSp /\ IdleFd /\ IdleNew

\* LocalDatabase.get_segment_cleaning_list.
InitSpecCleaningList == InitCleaningList /\ InitSpecIdleButCl
SpecCleaningList == InitSpecCleaningList /\ [][NextCleaningList]_vars

\* LocalDatabase.mark_segment_expired.
InitSpecMark == InitMark /\ InitSpecIdleButCl
SpecMark == InitSpecMark /\ [][NextMark]_vars

InitSpecMarkList == InitMarkList /\ InitSpecIdleButCl
SpecMarkList == InitSpecMarkList /\ [][NextMarkList]_vars

\* LocalDatabase.balance_expired_objects.
InitSpecBalance == InitBalance /\ InitSpecIdleButCl
SpecBalance == InitSpecBalance /\ [][NextBalance]_vars

\* cmd_clean.
InitSpecClean == InitClean /\ InitSpecIdleButCl
SpecClean == InitSpecClean /\ [][NextClean]_vars

\* filter_data with a filter command that may give up at any time.
InitSpecFilter ==
    InitFilter /\ IdleDB /\ IdleGC /\ IdleStore /\ IdleHist /\ IdleMd /\ IdleVer
               /\ IdleRs /\ IdleSp /\ IdleCl /\ IdleNew
SpecFilter == InitSpecFilter /\ [][NextFilter]_vars

\* filter_data with a filter command that exits after the end of its
\* input only: the thread and the child run when they can, and the
\* consumer keeps reading.
InitSpecFilterLive ==
    InitFilter /\ IdleDB /\ IdleGC /\ IdleStore /\ IdleHist /\ IdleMd /\ IdleVer
               /\ IdleRs /\ IdleSp /\ IdleCl /\ IdleNew
SpecFilterLive ==
    /\ InitSpecFilterLive
    /\ [][NextFilterLive]_vars
    /\ WF_vars(copy_thread_read) /\ WF_vars(copy_thread_write)
    /\ WF_vars(copy_thread_close) /\ WF_vars(copy_thread_wait)
    /\ WF_vars(Child_read) /\ WF_vars(Child_write) /\ WF_vars(Child_exit)
    /\ WF_vars(Consumer_read) /\ WF_vars(Consumer_eof)

\* The components below with every other component idle.
InitSpecIdleButPs ==
    IdleDB /\ IdleGC /\ IdleStore /\ IdleHist /\ IdleMd /\ IdleVer /\ IdleRs
           /\ IdleSp /\ IdleCl /\ IdleFd /\ IdlePr /\ IdleUri

\* parse over every input.
InitSpecParse == InitParse /\ InitSpecIdleButPs
SpecParse == InitSpecParse /\ [][NextParse]_vars

\* prune_localdb and list_snapshots on any local database.
InitSpecPrune ==
    InitPrune /\ IdleGC /\ IdleStore /\ IdleHist /\ IdleMd /\ IdleVer /\ IdleRs
              /\ IdleSp /\ IdleCl /\ IdleFd /\ IdlePs /\ IdleUri
SpecPrune == InitSpecPrune /\ [][NextPrune]_vars

\* uri_encode_raw and uri_decode_raw of every byte string.
InitSpecUri ==
    InitUri /\ IdleDB /\ IdleGC /\ IdleStore /\ IdleHist /\ IdleMd /\ IdleVer
            /\ IdleRs /\ IdleSp /\ IdleCl /\ IdleFd /\ IdlePs /\ IdlePr
SpecUri == InitSpecUri /\ [][NextUri]_vars

----------------------------------------------------------------------------
(* Claims about the local database.                                        *)

\* C1: garbage_collect() deletes only unreachable data: it deletes no
\* snapshots row, no segments row that has a segment_utilization row of an
\* existing snapshot, and no block_index row whose segment survives the call.
C1_GcDeletesOnlyUnreachable ==
    [][dbOp' = "garbage_collect" =>
        /\ snapshots \subseteq snapshots'
        /\ \A g \in segments :
              (\E u \in segment_utilization :
                  /\ u.segmentid = g.segmentid
                  /\ \E s \in snapshots : s.snapshotid = u.snapshotid)
              => g \in segments'
        /\ \A b \in block_index :
              (\E g \in segments' : g.segmentid = b.segmentid)
              => b \in block_index']_vars

\* garbage_collect has deleted one segment and its block while another
\* segment, referenced by an existing snapshot, is still there.
C1_Witness ==
    /\ dbOp = "garbage_collect"
    /\ dbDeleted.segments /\ dbDeleted.block_index
    /\ segments # {} /\ snapshots # {}
    /\ \E u \in segment_utilization : \E g \in segments :
           u.segmentid = g.segmentid

\* C2: after garbage_collect() there is no block_index row whose segmentid
\* is absent from segments and no segment_utilization row whose snapshotid is
\* absent from snapshots.
C2_NoDanglingAfterGc ==
    dbOp = "garbage_collect" => BlockIndexHasSegment /\ UtilizationHasSnapshot

\* garbage_collect had dangling rows of both kinds to delete, and rows of
\* both tables are left.
C2_Witness ==
    /\ dbOp = "garbage_collect"
    /\ dbDeleted.segment_utilization /\ dbDeleted.block_index
    /\ segment_utilization # {}

\* C3: from a consistent database, delete_snapshot calls followed by
\* garbage_collect() end in a consistent database: every block_index row has
\* its segment, every segment_utilization row its snapshot and its segment.
C3_ConsistentAfterDeleteAndGc ==
    dbOp = "garbage_collect" => Consistent

\* A snapshot was deleted from a consistent database and garbage_collect
\* then removed its utilization rows, a segment and the segment's block.
C3_Witness ==
    /\ dbOp = "garbage_collect"
    /\ dbDeleted.segment_utilization /\ dbDeleted.segments
    /\ dbDeleted.block_index
    /\ snapshots # {} /\ segments # {}

\* C4: garbage_collect() is idempotent: run directly after garbage_collect()
\* it deletes no row of any of the five tables.
C4_GcIdempotent ==
    [][dbOp = "garbage_collect" /\ dbOp' = "garbage_collect" =>
        UNCHANGED <<snapshots, segment_utilization, segments, block_index,
                    subblock_signatures>>]_vars

\* garbage_collect has run twice in a row on a database that still has rows
\* in every table.
C4_Witness ==
    /\ gcAgain
    /\ snapshots # {} /\ segment_utilization # {} /\ segments # {}
    /\ block_index # {} /\ subblock_signatures # {}

----------------------------------------------------------------------------
(* Claims about cmd_garbage_collect.                                       *)

\* C5: cmd_garbage_collect never deletes a snapshot descriptor that it
\* listed, nor a segment named in the Segments field of a listed snapshot
\* (as load_snapshot read it), and with dry_run set it deletes nothing.
C5_GcKeepsNeededFiles ==
    [][gc'.ran =>
        /\ backend' \subseteq backend
        /\ \A f \in backend \ backend' :
              /\ ~(f.type = "snapshots" /\ f.dir \in {"snapshots", ""})
              /\ f.type = "segments" =>
                    \A d \in gc'.loaded : f.name \notin content[d].segments
        /\ {d.name : d \in gc'.loaded}
              = {f.name : f \in {g \in backend : g.type = "snapshots"}}
        /\ gc'.dry_run => backend' = backend]_vars

\* A run without dry_run has deleted a segment file and kept another one
\* that a descriptor names.
C5_Witness ==
    /\ gc.ran /\ ~gc.dry_run /\ ~gc.failed
    /\ \E f \in gc.to_delete : f.type = "segments" /\ f \notin backend
    /\ \E f \in backend : \E d \in gc.loaded :
           f.type = "segments" /\ f.name \in content[d].segments

\* A run with dry_run set found files to delete.
C5_WitnessDryRun ==
    gc.ran /\ gc.dry_run /\ gc.to_delete # {}

----------------------------------------------------------------------------
(* Claims about CumulusStore.get, under SpecGet.                           *)

\* The object a reference names is in its segment on the backend.
HasObject(refstr) ==
    /\ refstr.segment \in SegNames
    /\ stored[refstr.segment] # NotStored
    /\ \E e \in stored[refstr.segment] : e.object = refstr.object

\* The whole object as the backend stores it.
WholeObject(refstr) == Read(stored[refstr.segment], refstr.object)

\* The reference has no checksum, or one the whole object matches.
ChecksumPasses(refstr) ==
    \/ refstr.checksum = NoChecksum
    \/ /\ refstr.checksum.algo \in CHECKSUM_ALGORITHMS
       /\ hexdigest(refstr.checksum.algo, WholeObject(refstr))
              = refstr.checksum.digest

\* bytes[start .. start+length] of an object that has them all.
BytesOf(whole, start, length) == [i \in 1..length |-> whole[start + i]]

\* C6: get of a reference with a checksum returns data only if the hash of
\* the whole stored object equals the embedded digest; on a mismatch it
\* fails with ChecksumMismatch and returns no bytes, whatever the slice of
\* the reference is, since the check is made before the slice is applied.
C6_ChecksumOnWholeObject ==
    (HasObject(req) /\ req.checksum.algo \in CHECKSUM_ALGORITHMS) =>
        IF hexdigest(req.checksum.algo, WholeObject(req)) = req.checksum.digest
        THEN res.status # "ChecksumMismatch"
        ELSE res = [status |-> "ChecksumMismatch", data |-> <<>>]

\* A get failed on the checksum although the slice it asked for, taken
\* alone, has the digest of the reference.
C6_Witness ==
    /\ HasObject(req)
    /\ req.checksum.algo \in CHECKSUM_ALGORITHMS
    /\ req.form = "S+N"
    /\ req.s + req.n <= Len(WholeObject(req))
    /\ hexdigest(req.checksum.algo,
                 BytesOf(WholeObject(req), req.s, req.n)) = req.checksum.digest
    /\ hexdigest(req.checksum.algo, WholeObject(req)) # req.checksum.digest
    /\ res.status = "ChecksumMismatch"

\* C7 (as the code has it): for get with a slice (start, length, exact):
\* if the slice is exact and the object's length differs from length the
\* call fails; it fails with ShortObject whenever the object has fewer than
\* start+length bytes and length is not 0; otherwise it returns
\* bytes[start .. start+length], which for length 0 is the empty string
\* wherever the slice starts. It never returns a result shorter than length.
C7_SliceSemantics ==
    (HasObject(req) /\ req.form # "none" /\ ChecksumPasses(req)) =>
        LET whole == WholeObject(req)
            slice == parse_ref(req).slice
        IN  IF slice.exact /\ Len(whole) # slice.length
            THEN res.status # "ok" /\ res.data = <<>>
            ELSE IF Len(whole) < slice.start + slice.length
                    /\ slice.length > 0
            THEN res = [status |-> "ShortObject", data |-> <<>>]
            ELSE /\ res.status = "ok"
                 /\ Len(res.data) = slice.length
                 /\ \A i \in 1..slice.length :
                        res.data[i] = whole[slice.start + i]

\* A get of a slice that starts inside the object and runs past its end
\* failed with ShortObject.
C7_Witness ==
    /\ HasObject(req)
    /\ ChecksumPasses(req)
    /\ req.form = "S+N"
    /\ req.n > 0
    /\ req.s < Len(WholeObject(req))
    /\ req.s + req.n > Len(WholeObject(req))
    /\ res.status = "ShortObject"

\* C7 as stated: ShortObject whenever the object has fewer than
\* start+length bytes.
C7_ShortWheneverFewerBytes ==
    (HasObject(req) /\ req.form # "none" /\ ChecksumPasses(req)) =>
        LET whole == WholeObject(req)
            slice == parse_ref(req).slice
        IN  IF slice.exact /\ Len(whole) # slice.length
            THEN res.status # "ok"
            ELSE IF Len(whole) < slice.start + slice.length
            THEN res.status = "ShortObject"
            ELSE res = [status |-> "ok",
                        data |-> BytesOf(whole, slice.start, slice.length)]

\* C8: if the reference of a get has a checksum and verification succeeds,
\* the returned byte length equals the slice length when the reference has
\* a slice, and the object's stored length when it has none.
C8_ReturnedLength ==
    (HasObject(req) /\ req.checksum # NoChecksum /\ res.status = "ok") =>
        Len(res.data) = IF req.form = "none" THEN Len(WholeObject(req))
                        ELSE req.n

\* A get with a checksum returned a proper part of the object.
C8_Witness ==
    /\ HasObject(req)
    /\ req.checksum # NoChecksum
    /\ req.form = "S+N"
    /\ req.n > 0
    /\ req.n < Len(WholeObject(req))
    /\ res.status = "ok"
    /\ Len(res.data) = req.n

\* C9 as stated: parse_ref yields the non-exact slice (0, N, false) for
\* [N] and (S, N, false) for [S+N], and an exact slice only for [=N]; so
\* get of seg/obj[N] on an object longer than N bytes returns its first N
\* bytes.
C9_PlainSliceNotExact ==
    (req.segment # ZeroName) =>
        LET slice == parse_ref(req).slice
        IN  /\ req.form = "N" =>
                   slice = [start |-> 0, length |-> req.n, exact |-> FALSE,
                            given |-> TRUE]
            /\ req.form = "S+N" =>
                   slice = [start |-> req.s, length |-> req.n,
                            exact |-> FALSE, given |-> TRUE]
            /\ slice.exact => req.form = "=N"
            /\ (/\ HasObject(req)
                /\ ChecksumPasses(req)
                /\ req.form = "N"
                /\ Len(WholeObject(req)) > req.n)
                   => res = [status |-> "ok",
                             data |-> BytesOf(WholeObject(req), 0, req.n)]

\* C10: get of zero[N] returns exactly N zero bytes (the empty string for
\* N = 0) whatever the state of the store, calls the backend for nothing,
\* and leaves the extraction cache, the LRU list and accessed_segments as
\* they were.
C10_ZeroTouchesNothing ==
    [][(req'.segment = ZeroName /\ req'.form = "N") =>
           /\ res'.status = "ok"
           /\ Len(res'.data) = req'.n
           /\ \A i \in 1..req'.n : res'.data[i] = 0
           /\ ~fetched'
           /\ UNCHANGED <<stored, cache, _lru_list, accessed_segments>>
      ]_vars

\* A get of zero[N], N > 0, returned on a store that has extracted a
\* segment.
C10_Witness ==
    /\ req.segment = ZeroName
    /\ req.form = "N"
    /\ req.n > 0
    /\ res.status = "ok"
    /\ Len(res.data) = req.n
    /\ _lru_list # <<>>
    /\ accessed_segments # {}
    /\ \E sg \in SegNames : cache[sg] # NoDir

\* The same for zero[0], which returns the empty string.
C10_WitnessEmpty ==
    /\ req.segment = ZeroName
    /\ req.form = "N"
    /\ req.n = 0
    /\ res = [status |-> "ok", data |-> <<>>]
    /\ _lru_list # <<>>

----------------------------------------------------------------------------
(* Claims about the extraction cache and accessed_segments.                *)

\* The n last elements of a list, or all of it if it has fewer.
LastN(list, n) ==
    IF Len(list) <= n THEN list
    ELSE SubSeq(list, Len(list) - n + 1, Len(list))

\* C11: after any sequence of loads the LRU list holds exactly the
\* min(n, 16) most recently used distinct segments, least recently used
\* first: it never has more than CACHE_SIZE entries, never holds a segment
\* twice, the directories of the segments that fell out of it are removed,
\* and a scan over 17 distinct segments evicts exactly one segment, the
\* one accessed first.
C11_LruHoldsMostRecent ==
    /\ Len(_lru_list) <= CACHE_SIZE
    /\ \A i, j \in 1..Len(_lru_list) : i # j => _lru_list[i] # _lru_list[j]
    /\ _lru_list = LastN(hist.used, CACHE_SIZE)
    /\ \A sg \in Elements(hist.used) :
           (cache[sg] = NoDir) <=> (sg \notin Elements(_lru_list))
    /\ \A sg \in Elements(hist.evicted) : sg \in Elements(hist.used)
    /\ Len(hist.used) <= CACHE_SIZE => hist.evicted = <<>>
    /\ (~hist.repeated /\ Len(hist.used) = CACHE_SIZE + 1)
           => hist.evicted = <<hist.used[1]>>

\* Seventeen distinct segments were loaded one after the other, and the
\* first of them was evicted.
C11_Witness ==
    /\ ~hist.repeated
    /\ Len(hist.used) = CACHE_SIZE + 1
    /\ Len(_lru_list) = CACHE_SIZE
    /\ hist.evicted = <<hist.used[1]>>
    /\ cache[hist.used[1]] = NoDir

\* An evicted segment was loaded again, which evicted another one.
C11_WitnessReload ==
    /\ Len(hist.evicted) >= 2
    /\ hist.evicted[1] \in Elements(_lru_list)
    /\ hist.evicted[2] \notin Elements(_lru_list)

\* C12: every segment from which get loaded, or tried to load, an object
\* since accessed_segments was last cleared is a member of it, also when
\* the object came from the extraction cache without a fetch; so the
\* comparison of cmd_verify_snapshots with the Segments of the descriptor
\* sees every segment used by the current snapshot.
C12_AccessedHasEveryLoad == hist.sinceClear \subseteq accessed_segments

\* After accessed_segments was cleared, a get was served from the cache
\* without a fetch, and its segment is in accessed_segments.
C12_Witness ==
    /\ hist.cleared
    /\ req.segment \in hist.sinceClear
    /\ res.status = "ok"
    /\ ~fetched
    /\ req.segment \in accessed_segments

\* The same for a get that failed to fetch its segment.
C12_WitnessNotFound ==
    /\ hist.cleared
    /\ req.segment \in hist.sinceClear
    /\ res.status = "NotFound"
    /\ req.segment \in accessed_segments

----------------------------------------------------------------------------
(* Claims about read_metadata and MetadataItem.data.                       *)

\* Objects 1, 2 and 3 each hold a reference: a chain of four levels.
DeepChain ==
    \A i \in 1..MAX_RECURSION_DEPTH :
        \E pos \in 1..Len(md.objects[i]) : Indirect(md.objects[i][pos])

\* The depth-first in-order expansion of object i.
RECURSIVE Expand(_)
RECURSIVE ExpandFrom(_, _)
ExpandFrom(i, pos) ==
    IF pos > Len(md.objects[i]) THEN <<>>
    ELSE LET element == md.objects[i][pos]
         IN  (IF Indirect(element) THEN Expand(element[2])
              ELSE <<element>>) \o ExpandFrom(i, pos + 1)
Expand(i) == ExpandFrom(i, 1)

IsPrefix(short, long) ==
    /\ Len(short) <= Len(long)
    /\ \A k \in 1..Len(short) : short[k] = long[k]

\* C13: the stack of read_metadata and of MetadataItem.data never holds
\* more than MAX_RECURSION_DEPTH = 3 levels; a reference that would make a
\* fourth level fails with RecursionTooDeep, so a root with @X, X with @Y
\* and Y with @Z fails at @Z and yields nothing from Z.
C13_DepthAtMostThree ==
    /\ Len(md.stack) <= 3
    /\ md.status = "done" => ~DeepChain
    /\ md.status = "RecursionTooDeep" => DeepChain /\ Len(md.stack) = 3
    /\ \A k \in 1..Len(md.yielded) : md.yielded[k][2] <= 3

\* read_metadata stopped at the reference of the third level, after it
\* had yielded lines.
C13_Witness ==
    /\ md.kind = "read_metadata"
    /\ md.status = "RecursionTooDeep"
    /\ DeepChain
    /\ Len(md.stack) = 3
    /\ md.yielded # <<>>

\* The same for MetadataItem.data.
C13_WitnessData ==
    /\ md.kind = "data"
    /\ md.status = "RecursionTooDeep"
    /\ Len(md.stack) = 3

\* C14: what read_metadata and MetadataItem.data yield is the depth-first
\* in-order expansion of the root: each @ref is replaced in place by the
\* expansion of the object it names, no @ element is yielded, and the
\* order of the other elements is kept. A traversal that has not ended, or
\* that failed, has yielded a prefix of the expansion.
C14_DepthFirstInOrder ==
    /\ IsPrefix(md.yielded, Expand(1))
    /\ md.status = "done" => md.yielded = Expand(1)
    /\ \A k \in 1..Len(md.yielded) : md.yielded[k][1] # "@"

\* read_metadata ended after following references two levels down, with
\* lines before and after a reference.
C14_Witness ==
    /\ md.kind = "read_metadata"
    /\ md.status = "done"
    /\ \E k \in 1..Len(md.yielded) : md.yielded[k][2] = 3
    /\ Len(md.yielded) >= 3
    /\ md.yielded[1][2] = 1
    /\ md.yielded[Len(md.yielded)][2] = 1

\* The same for MetadataItem.data.
C14_WitnessData ==
    /\ md.kind = "data"
    /\ md.status = "done"
    /\ \E k \in 1..Len(md.yielded) : md.yielded[k][2] = 3
    /\ md.yielded[1][2] = 1
    /\ md.yielded[Len(md.yielded)][2] = 1

----------------------------------------------------------------------------
(* Claims about the version gate.                                          *)

\* The numbers of a Format value that names a version.
Version(format) == [k \in 1..Len(format.components) |->
                       int(format.components[k])]

NamesVersion(format) ==
    format.system \in {"Cumulus", "LBS"} /\ Len(format.components) >= 1

\* The version is above 0.11: a major number above 0, or major 0 with a
\* minor number above 11, or 0.11 followed by further numbers.
Above_0_11(v) ==
    \/ v[1] > 0
    \/ Len(v) >= 2 /\ v[1] = 0 /\ v[2] > 11
    \/ Len(v) >= 3 /\ v[1] = 0 /\ v[2] = 11

\* C15: check_version accepts a Format of Cumulus Snapshot v0.11 or any
\* lower version, and rejects with UnsupportedVersion every Format whose
\* version compares greater than FORMAT_VERSION = (0, 11), such as v0.12.
C15_VersionGate ==
    (ver.status # "none" /\ NamesVersion(ver.format)) =>
        IF Above_0_11(Version(ver.format))
        THEN ver.status = "UnsupportedVersion"
        ELSE ver.status = "accepted"

\* Cumulus Snapshot v0.12 was rejected.
C15_Witness ==
    /\ ver.format = [system |-> "Cumulus", components |-> <<<<0>>, <<1, 2>>>>]
    /\ ver.status = "UnsupportedVersion"

\* Cumulus Snapshot v0.11 was accepted.
C15_WitnessAccepted ==
    /\ ver.format = [system |-> "Cumulus", components |-> <<<<0>>, <<1, 1>>>>]
    /\ ver.status = "accepted"

----------------------------------------------------------------------------
(* Restore *)

RegularPaths == {i \in 1..Len(rs.log) : Regular(rs.log[i])}

ExtractedOk == {rs.extracted[k].path : k \in {j \in 1..Len(rs.extracted) : rs.extracted[j].ok}}

Phase2Ended == rs.status \in {"phase34", "done"}

\* The first of the keys that Phase 2 picked so far.
FirstPicked(keys) ==
    LET at == {k \in 1..Len(rs.picked) : rs.picked[k] \in keys}
    IN  rs.picked[CHOOSE k \in at : \A other \in at : k <= other]

\* C16: Phase 2 extracts no file twice and only regular files of the plan;
\* a file that a segment pass extracts is extracted in the pass of the
\* first picked of the keys of its blocks, a file that the pass of the
\* remaining files extracts has no key, and once Phase 2 has ended without
\* error every regular file has been extracted and metadata_paths is
\* empty.
C16_EachFileOnce ==
    /\ \A j, k \in 1..Len(rs.extracted) :
           rs.extracted[j].path = rs.extracted[k].path => j = k
    /\ \A k \in 1..Len(rs.extracted) :
           LET e == rs.extracted[k]
               keys == rs.log[e.path].keys
           IN  /\ e.path \in RegularPaths
               /\ e.pass = "segment" =>
                      /\ e.segment \in keys
                      /\ e.segment = FirstPicked(keys)
               /\ e.pass = "remaining" => keys = {}
    /\ Phase2Ended =>
           /\ ExtractedOk = RegularPaths
           /\ rs.metadata_paths = {}

\* A restore that ended, of a file with blocks under both keys and a file
\* with no block.
C16_Witness ==
    /\ rs.status = "done"
    /\ \E k \in 1..Len(rs.extracted) :
           /\ rs.log[rs.extracted[k].path].keys = RestoreKeys
           /\ rs.extracted[k].pass = "segment"
    /\ \E k \in 1..Len(rs.extracted) : rs.extracted[k].pass = "remaining"
    /\ Len(rs.picked) = 2

\* The items that Phase 3/4 has visited, in the order of the visits.
RECURSIVE Visits(_)
Visits(steps) ==
    IF steps = <<>> THEN <<>>
    ELSE LET before == Visits(SubSeq(steps, 1, Len(steps) - 1))
             last == steps[Len(steps)]
         IN  IF last.step = "visit" THEN Append(before, last.item)
             ELSE before

\* C17: when a step of Phase 3/4 has happened, every regular file of the
\* plan has been extracted; and Phase 3/4 visits the items from the last of
\* the metadata log to the first, each once: its k-th visit is the item
\* number n + 1 - k of n, every step is on the item visited last, and at
\* the end all n items were visited.
C17_FilesThenReverseOrder ==
    LET n == Len(rs.log)
        visits == Visits(rs.steps)
    IN  /\ rs.steps # <<>> =>
               /\ ExtractedOk = RegularPaths
               /\ rs.metadata_paths = {}
        /\ \A k \in 1..Len(visits) : visits[k] = n + 1 - k
        /\ \A k \in 1..Len(rs.steps) :
               rs.steps[k].item = n + 1 - Len(Visits(SubSeq(rs.steps, 1, k)))
        /\ rs.status = "done" => Len(visits) = n

\* A restore that ended, of a log of a symlink and then a regular file.
C17_Witness ==
    /\ rs.status = "done"
    /\ Len(rs.log) = 2
    /\ rs.log[1].type = "l"
    /\ Regular(rs.log[2])
    /\ Visits(rs.steps) = <<2, 1>>

\* The entries of the steps of one item.
StepEntries(item, names) ==
    [k \in 1..Len(names) |->
        [item |-> item, step |-> names[k],
         ok |-> names[k] \notin rs.log[item].fails]]

\* The steps of the items n, n - 1, ..., 1, where names[i] are the calls
\* for item i.
RECURSIVE StepsOfItems(_, _)
StepsOfItems(n, names) ==
    IF n = 0 THEN <<>>
    ELSE <<[item |-> n, step |-> "visit", ok |-> TRUE]>>
             \o StepEntries(n, names[n])
             \o StepsOfItems(n - 1, names)

\* The calls of Phase 3/4 for an item, by the code.
Calls(m) ==
    CASE m.type \in {"-", "f", "d", "s"} -> <<"lchown", "chmod", "utime">>
      [] m.type = "l" ->
           IF "create" \in m.fails THEN <<"create">>
           ELSE <<"create", "lchown">>
      [] m.type \in {"p", "c", "b"} ->
           IF "create" \in m.fails THEN <<"create">>
           ELSE <<"create", "lchown", "chmod", "utime">>
      [] OTHER -> <<>>

\* The calls of Phase 3/4 for an item, as stated.
StatedCalls(m) ==
    (IF m.type \in {"l", "p", "c", "b"} THEN <<"create">> ELSE <<>>)
        \o <<"lchown">>
        \o (IF m.type = "l" THEN <<>> ELSE <<"chmod">>)
        \o <<"utime">>

\* C18 (as the code has it): Phase 3/4 performs for each item, in this
\* order, the creation of the node (symlink, fifo, device), lchown, chmod
\* and utime; a symlink gets neither chmod nor utime; an item of an unknown
\* type gets a warning and no call; a failed creation of the node is a
\* warning and ends the steps of that item; a failed lchown, chmod or
\* utime is a warning and the later steps of the item follow; and no
\* failure prevents the steps of the remaining items.
C18_StepsInOrder ==
    LET all == StepsOfItems(Len(rs.log),
                            [i \in 1..Len(rs.log) |-> Calls(rs.log[i])])
    IN  /\ IsPrefix(rs.steps, all)
        /\ rs.status = "done" => rs.steps = all

\* C18 (as stated): every item gets the creation of its node if it is a
\* special file, then lchown, then chmod unless it is a symlink, then
\* utime, whatever step failed.
C18_EveryStepWhateverFailed ==
    rs.status = "done" =>
        rs.steps = StepsOfItems(Len(rs.log),
                       [i \in 1..Len(rs.log) |-> StatedCalls(rs.log[i])])

\* A restore that ended, where the creation of a node failed on an item
\* that is not the last one visited, and a lchown failed on an item that
\* then got chmod.
C18_Witness ==
    /\ rs.status = "done"
    /\ \E k \in 1..Len(rs.steps) :
           /\ rs.steps[k].step = "create"
           /\ ~rs.steps[k].ok
           /\ k < Len(rs.steps)
           /\ rs.steps[k + 1].step = "visit"
    /\ \E k \in 1..(Len(rs.steps) - 1) :
           /\ rs.steps[k].step = "lchown"
           /\ ~rs.steps[k].ok
           /\ rs.steps[k + 1].step = "chmod"

\* A symlink whose node was created: lchown is its last step.
C18_WitnessSymlink ==
    /\ rs.status = "done"
    /\ \E k \in 1..Len(rs.steps) :
           /\ rs.steps[k].step = "lchown"
           /\ rs.log[rs.steps[k].item].type = "l"
           /\ k = Len(rs.steps)

\* C19 (as stated): when restore_file ran for a file whose blocks hold a
\* number of bytes other than item.size, or do not have the checksum of the
\* item, the restore is aborted, no file was extracted after it and no step
\* of Phase 3/4 has happened.
C19_CorruptionAborts ==
    \A k \in 1..Len(rs.extracted) :
        LET m == rs.log[rs.extracted[k].path]
        IN  (m.bytes # decode_int(m.size) \/ ~m.sumOk) =>
                /\ rs.status = "aborted"
                /\ k = Len(rs.extracted)
                /\ rs.steps = <<>>

\* C19 (what the code does): the restore aborts in that way when the
\* number of bytes differs from the decimal reading of the size field (or
\* the field has no decimal reading), or the checksum does not verify.
C19_DecimalSizeAborts ==
    \A k \in 1..Len(rs.extracted) :
        LET m == rs.log[rs.extracted[k].path]
        IN  (m.bytes # int_decimal(m.size) \/ ~m.sumOk) =>
                /\ rs.status = "aborted"
                /\ k = Len(rs.extracted)
                /\ rs.steps = <<>>

\* An aborted restore with a file still planned.
C19_WitnessAborted ==
    /\ rs.status = "aborted"
    /\ Len(rs.log) = 2
    /\ RegularPaths = {1, 2}
    /\ Len(rs.extracted) = 1

----------------------------------------------------------------------------
(* SearchPath *)

\* C20 (the list): _path holds every entry of the constructor once.
C20_Permutation ==
    /\ Len(sp._path) = MaxEntries
    /\ Elements(sp._path) = Entries

\* C20: _path is always a permutation of the entries it started with;
\* a call of get or stat that returns has found the file of the entry it
\* hit, leaves that entry first and the other entries in the order they
\* had; a call for a name that no entry has raises NotFoundError, and a
\* call that raises NotFoundError leaves the order as it was.
C20_MoveToFront ==
    [][/\ C20_Permutation /\ C20_Permutation'
       /\ LET call == sp'.call
              nowhere == \A e \in Entries :
                             sp.files[call.basename][e] = "NotFoundError"
          IN  /\ call.status = "ok" =>
                     /\ sp.files[call.basename][call.hit] = "found"
                     /\ Head(sp'._path) = call.hit
                     /\ Tail(sp'._path) = Without(sp._path, call.hit)
              /\ nowhere => call.status = "NotFoundError"
              /\ call.status = "NotFoundError" =>
                     /\ nowhere
                     /\ sp'._path = sp._path]_vars

\* A call has hit the entry that was third, after calls had changed the
\* order to 2, 1, 3.
C20_Witness ==
    /\ SubSeq(sp._path, 1, 3) = <<3, 2, 1>>
    /\ sp.call.status = "ok"
    /\ sp.call.hit = 3

\* A call by stat found nothing, after the order had changed.
C20_WitnessNotFound ==
    /\ sp._path # [i \in Entries |-> i]
    /\ sp.call.op = "stat"
    /\ sp.call.status = "NotFoundError"

\* The last two calls were get for the same name, and the first returned.
GetAfterGet ==
    /\ sp.prev.op = "get"
    /\ sp.prev.status = "ok"
    /\ sp.call.op = "get"
    /\ sp.call.basename = sp.prev.basename

\* C21 (as the code has it): a get for the name of a get that has just
\* returned gives the backend one path only, the one of the entry that had
\* the file, and returns; its probes are among those of the first call,
\* and fewer whenever the first call made more than one.
C21_SecondGetOneProbe ==
    GetAfterGet =>
        /\ sp.call.status = "ok"
        /\ sp.call.hit = sp.prev.hit
        /\ sp.call.probes = {sp.prev.hit}
        /\ sp.call.probes \subseteq sp.prev.probes
        /\ Cardinality(sp.prev.probes) > 1 => sp.call.probes # sp.prev.probes

\* C21 (as stated): the probes of the second get are a strict subset of
\* those of the first.
C21_StrictSubset ==
    GetAfterGet =>
        /\ sp.call.probes \subseteq sp.prev.probes
        /\ sp.call.probes # sp.prev.probes

\* The first get tried every entry and found the file with the last one;
\* the second get has run.
C21_Witness ==
    /\ GetAfterGet
    /\ sp.prev.probes = Entries
    /\ Cardinality(sp.call.probes) = 1

\* C22 (as stated): list raises NotFoundError only if backend.list raised
\* NotFoundError for every one of the distinct directories of the search
\* path; one directory listed without NotFoundError, be it empty, is enough
\* for list not to raise.
C22_NotFoundOnlyIfAllMissing ==
    sp.list.status = "NotFoundError" =>
        \A d \in sp.list.directories : sp.listing[d] = "NotFoundError"

\* C22 (what the code does): list raises NotFoundError exactly when no
\* directory of the search path returned a name; each distinct directory
\* is listed once, and the matches of every directory are yielded.
C22_NotFoundIffNoName ==
    sp.list.status # "none" =>
        /\ sp.list.directories = {sp.prefix[e] : e \in Entries}
        /\ sp.list.yielded =
               {d \in sp.list.directories : sp.listing[d] = "match"}
        /\ sp.list.status = "NotFoundError" <=>
               \A d \in sp.list.directories :
                   sp.listing[d] \in {"NotFoundError", "empty"}

\* list has raised NotFoundError with a directory that exists and is
\* empty, and another that does not exist.
C22_WitnessEmpty ==
    /\ sp.list.status = "NotFoundError"
    /\ sp.list.directories = Dirs
    /\ sp.listing[""] = "empty"
    /\ sp.listing["snapshots"] = "NotFoundError"

----------------------------------------------------------------------------
(* Segment cleaner *)

\* The benefit of a row by the formula, with u = used / size as a fraction:
\* (1 - u) * (age + boost) / (u + 1/10)
\*     = ((size - used) * (age + boost) * 10) / (10 * used + size)
FormulaBenefit(row, age_boost) ==
    LET used == IF row.used = NULL THEN 0 ELSE row.used
        age == IF row.age = NULL THEN 0 ELSE row.age
    IN  Fraction((row.size - used) * (age + age_boost) * 10,
                 10 * used + row.size)

Listed_after_get == cl.call.op = "get_segment_cleaning_list"

C23_WitnessNone ==
    /\ Listed_after_get
    /\ \E i \in 1..Len(cl.list) :
           cl.list[i].used = NULL /\ cl.list[i].age = NULL
    /\ Len(cl.list) = 2

\* C24: a step of mark_segment_expired(s) leaves every segments row of s
\* with the largest snapshotid of snapshots as expire_time and every
\* block_index row of s with expired = 0, changes no other column of
\* these rows, no row of another segment, and neither the number of rows
\* nor snapshots.
C24_MarkOnlyThatSegment ==
    [][cl'.call.op = "mark_segment_expired" =>
         LET s == cl'.call.arg
         IN  /\ cl'.snapshots = cl.snapshots
             /\ Len(cl'.segments) = Len(cl.segments)
             /\ Len(cl'.block_index) = Len(cl.block_index)
             /\ \A i \in 1..Len(cl.segments) :
                    LET old == cl.segments[i]
                        new == cl'.segments[i]
                    IN  IF old.segmentid # s THEN new = old
                        ELSE /\ new = [old EXCEPT
                                          !.expire_time = new.expire_time]
                             /\ cl.snapshots # {} =>
                                    /\ \E row \in cl.snapshots :
                                           row.snapshotid = new.expire_time
                                    /\ \A row \in cl.snapshots :
                                           row.snapshotid <= new.expire_time
             /\ \A i \in 1..Len(cl.block_index) :
                    LET old == cl.block_index[i]
                        new == cl'.block_index[i]
                    IN  IF old.segmentid # s THEN new = old
                        ELSE new = [old EXCEPT !.expired = 0]]_vars

\* Segment 1 has been marked with snapshots 1 and 2 in the database: a
\* block of it has expired = 0, a block of segment 2 is still in bucket 2
\* and another not expired, and segment 2 has no expire_time.
C24_Witness ==
    /\ cl.call = CleanerCall("mark_segment_expired", 1, "ok")
    /\ {row.snapshotid : row \in cl.snapshots} = {1, 2}
    /\ Len(cl.segments) >= 2
    /\ cl.segments[1].expire_time = 2
    /\ cl.segments[2].expire_time = NULL
    /\ \E i, j, k \in 1..Len(cl.block_index) :
           /\ cl.block_index[i] = BlockRow(1, 0, 0 - 1, 1)
           /\ cl.block_index[j] = BlockRow(2, 2, 0 - 1, 1)
           /\ cl.block_index[k] = BlockRow(2, NULL, 0 - 1, 1)

Balanced_after == cl.call.op = "balance_expired_objects"

C26_Distribution ==
    /\ Len(cl.segments) = 1
    /\ cl.segments[1].size = 5
    /\ Len(cl.block_index) = 3
    /\ \A i \in 1..3 : cl.block_index[i].expired # NULL
    /\ {<<Age(cl.block_index[i]), cl.block_index[i].size>> : i \in 1..3}
           = {<<1, 1>>, <<2, 1>>, <<10, 10>>}

\* C26 (as the code has it): for that distribution the objects older
\* than 2 days (age 10) get expired = 1, and the objects of age 2 and of
\* age 1 get expired = 0; the cutoffs are -1 and 2.
C26_OlderThanTwo ==
    Balanced_after /\ C26_Distribution =>
        /\ cl.cutoffs = <<0 - 1, 2>>
        /\ \A i \in 1..3 :
               cl.block_index[i].expired =
                   IF Age(cl.block_index[i]) > 2 THEN 1 ELSE 0

\* C26 (as stated): the objects with age >= 2 get expired = 1 and the
\* objects with age < 2 get expired = 0.
C26_TwoAndOlder ==
    Balanced_after /\ C26_Distribution =>
        \A i \in 1..3 :
            cl.block_index[i].expired =
                IF Age(cl.block_index[i]) >= 2 THEN 1 ELSE 0

\* The balancing of that distribution has run.
C26_Witness ==
    /\ Balanced_after
    /\ C26_Distribution
    /\ \E i \in 1..3 : cl.block_index[i].expired = 1

\* C27: a step of balance_expired_objects leaves every block_index row
\* whose expired is NULL as it was, timestamp included, leaves no row
\* that was expired with expired NULL, changes neither the number of rows
\* nor segments or snapshots, and leaves the whole database as it was when
\* no row is expired.
C27_NullRowsUntouched ==
    [][cl'.call.op = "balance_expired_objects" =>
         /\ cl'.snapshots = cl.snapshots
         /\ cl'.segments = cl.segments
         /\ Len(cl'.block_index) = Len(cl.block_index)
         /\ \A i \in 1..Len(cl.block_index) :
                LET old == cl.block_index[i]
                    new == cl'.block_index[i]
                IN  /\ old.expired = NULL => new = old
                    /\ old.expired # NULL => new.expired # NULL
         /\ (\A i \in 1..Len(cl.block_index) :
                 cl.block_index[i].expired = NULL)
                => cl'.block_index = cl.block_index]_vars

\* After a balancing: a row that is not expired with its timestamp in the
\* future, beside an expired row whose timestamp was set to now.
C27_Witness ==
    /\ Balanced_after
    /\ \E i, j \in 1..Len(cl.block_index) :
           /\ cl.block_index[i].expired = NULL
           /\ cl.block_index[i].timestamp = 1
           /\ cl.block_index[j].expired # NULL
           /\ cl.block_index[j].timestamp = 0

\* After a balancing of a table of three rows none of which is expired.
C27_WitnessNoneExpired ==
    /\ Balanced_after
    /\ Len(cl.block_index) = 3
    /\ \A i \in 1..3 : cl.block_index[i].expired = NULL
    /\ cl.cutoffs = <<>>

\* The number of calls of a method in the log of a run, and the place of a
\* method in cmd_clean.
CallsOf(log, method) == Cardinality({i \in 1..Len(log) : log[i] = method})

PlaceOf(method) ==
    CASE method = "list_schemes" -> 0
      [] method \in {"prune_old_snapshots", "garbage_collect"} -> 1
      [] method = "get_segment_cleaning_list" -> 2
      [] method = "mark_segment_expired" -> 3
      [] method = "balance_expired_objects" -> 4
      [] method = "commit" -> 5
      [] method = "raise" -> 6

\* C28: a run of cmd_clean calls prune_old_snapshots once for every scheme
\* of snapshots, each call ending with garbage_collect (so garbage_collect
\* is not called at all for a database without snapshots), then
\* get_segment_cleaning_list once, then mark_segment_expired at most once
\* for each listed segment, then balance_expired_objects once, then commit
\* once, in this order; commit directly follows balance_expired_objects,
\* the run is done exactly when commit has been called, and no commit
\* is called in a run in which a call has raised.
C28_CleanOrder ==
    LET log == cl.run.log
    IN  /\ \A i, j \in 1..Len(log) :
               i < j => PlaceOf(log[i]) <= PlaceOf(log[j])
        /\ \A i \in 1..Len(log) :
               /\ log[i] = "garbage_collect" =>
                      i > 1 /\ log[i - 1] = "prune_old_snapshots"
               /\ log[i] = "prune_old_snapshots" =>
                      i < Len(log) /\ log[i + 1] = "garbage_collect"
               /\ log[i] = "commit" =>
                      i > 1 /\ log[i - 1] = "balance_expired_objects"
        /\ \A method \in {"list_schemes", "get_segment_cleaning_list",
                           "balance_expired_objects", "commit", "raise"} :
               CallsOf(log, method) <= 1
        /\ CallsOf(log, "get_segment_cleaning_list") = 1 =>
               /\ CallsOf(log, "garbage_collect")
                      = Cardinality({row.scheme : row \in cl.snapshots})
               /\ CallsOf(log, "mark_segment_expired") <= Len(cl.list)
        /\ CallsOf(log, "raise") = 1 => CallsOf(log, "commit") = 0
        /\ cl.run.pc = "done" <=> CallsOf(log, "commit") = 1
        /\ cl.run.pc = "raised" <=> CallsOf(log, "raise") = 1

\* C28 as stated: garbage_collect has been executed before every call of
\* get_segment_cleaning_list.
C28_GarbageCollectFirst ==
    \A i \in 1..Len(cl.run.log) :
        cl.run.log[i] = "get_segment_cleaning_list" =>
            \E j \in 1..(i - 1) : cl.run.log[j] = "garbage_collect"

\* A run over the schemes "a" and "b" is done: it has pruned both, listed
\* the segments, marked one, balanced and committed.
C28_Witness ==
    /\ cl.run.pc = "done"
    /\ cl.run.log = <<"list_schemes",
                      "prune_old_snapshots", "garbage_collect",
                      "prune_old_snapshots", "garbage_collect",
                      "get_segment_cleaning_list", "mark_segment_expired",
                      "balance_expired_objects", "commit">>

\* A run has raised after marking a segment: nothing is committed.
C28_WitnessRaised ==
    /\ cl.run.pc = "raised"
    /\ CallsOf(cl.run.log, "mark_segment_expired") = 1
    /\ CallsOf(cl.run.log, "commit") = 0

-----------------------------------------------------------------------------
(* Claims about filter_data.                                               *)

\* C29 as stated: when the consumer's read of the filter's output has
\* ended and the filter command has exited with a non-zero status, the
\* read has failed with Corrupt.
C29_NonZeroExitIsCorrupt ==
    (fd.result # "none" /\ fd.returncode # 0) => fd.result = "Corrupt"

\* What the code does: p.wait() is called by the thread, whether the
\* consumer has finished or not, and the consumer's read ends without
\* regard to the status, as ok or with tarfile's ReadError.
C29_StatusDropped ==
    /\ fd.result \in {"none", "ok", "ReadError"}
    /\ fd.reaped => fd.copy_thread = "done" /\ fd.child = "exited"

\* C30: with a filter command that exits after the end of its input and
\* not before, a thread and a child that run whenever they can and a
\* consumer that keeps reading, the thread closes dst only after it has
\* read the whole raw stream, and eventually the consumer has read the
\* whole output up to its end, the thread is done and the child is
\* reaped.
C30_NoPipeDeadlock ==
    /\ [](fd.copy_thread \in {"wait", "done"} => fd.src = 0)
    /\ <>(/\ fd.result = "ok"
          /\ fd.read = fd.raw * fd.expand
          /\ fd.copy_thread = "done"
          /\ fd.reaped)

\* The consumer has read an output of more blocks than the two pipes
\* hold together, up to its end, and the child is reaped.
C30_Witness ==
    /\ fd.result = "ok"
    /\ fd.reaped
    /\ fd.raw > MaxPipe
    /\ fd.read > 2 * MaxPipe

-----------------------------------------------------------------------------
(* Claims about parse.                                                     *)

\* The line that a step of parse reads, without its newline, and whether
\* the predicate of the run is true of it.
LineRead == Stripped(Head(ps.lines))
LineTerminates ==
    \/ ps.terminate = "empty" /\ LineRead = <<>>
    \/ ps.terminate = "blank" /\ LineRead \in {<<>>, <<" ">>}
    \/ ps.terminate = "dash" /\ LineRead # <<>> /\ Head(LineRead) = "-"

\* C31: in every step of parse no stanza without a key is among the
\* yielded ones; a line of which terminate is true yields the current
\* stanza if it has a key, starts an empty one with no last key, and
\* adds neither a key nor a continuation; the end of the input yields the
\* last stanza exactly if it has a key; and without a terminate predicate
\* at most one stanza is yielded.
C31_NoEmptyStanza ==
    [][ps' # ps =>
         /\ \A i \in 1..Len(ps'.yielded) : DOMAIN ps'.yielded[i] # {}
         /\ ps.terminate = "None" => Len(ps'.yielded) <= 1
         /\ (ps.lines # <<>> /\ LineTerminates) =>
                /\ ps'.dict = EmptyDict
                /\ ps'.last_key = None
                /\ ps'.yielded = IF DOMAIN ps.dict = {} THEN ps.yielded
                                 ELSE Append(ps.yielded, ps.dict)
         /\ (ps.lines # <<>> /\ ~LineTerminates) => ps'.yielded = ps.yielded
         /\ ps.lines = <<>> =>
                /\ ps'.returned
                /\ ps'.yielded = IF DOMAIN ps.dict = {} THEN ps.yielded
                                 ELSE Append(ps.yielded, ps.dict)]_vars

\* parse has returned after a key line, a terminating line that would
\* otherwise be a key line, and a second key line: two stanzas, the first
\* without the key "-".
C31_Witness ==
    /\ ps.returned
    /\ ps.terminate = "dash"
    /\ Len(ps.yielded) = 2
    /\ DOMAIN ps.yielded[1] = {<<"a">>}
    /\ DOMAIN ps.yielded[2] = {<<"a", "a">>}

\* parse has returned without a stanza from an input of terminating
\* lines only.
C31_WitnessNothing ==
    /\ ps.returned
    /\ ps.terminate = "empty"
    /\ ps.yielded = <<>>
    /\ ps.dict = EmptyDict

\* C32: in a step of parse on a line of which terminate is not true:
\* a line whose first character is whitespace is appended whole to the
\* value of last_key and changes nothing else if last_key is set, and
\* changes nothing if it is not; a line that is no key line and does not
\* start with whitespace changes no value and clears last_key; and
\* last_key, when set, is a key of the current stanza.
C32_Continuation ==
    [][ps' # ps =>
         /\ ps'.last_key # None => ps'.last_key \in DOMAIN ps'.dict
         /\ (ps.lines # <<>> /\ ~LineTerminates) =>
                LET l == LineRead
                    keyLine == \E n \in 1..(Len(l) - 1) :
                                   /\ \A i \in 1..n : l[i] \in {"a", "-"}
                                   /\ l[n + 1] = ":"
                IN  IF l # <<>> /\ Head(l) = " "
                    THEN /\ ps'.last_key = ps.last_key
                         /\ DOMAIN ps'.dict = DOMAIN ps.dict
                         /\ \A key \in DOMAIN ps.dict :
                                ps'.dict[key] =
                                    IF key = ps.last_key
                                    THEN ps.dict[key] \o l
                                    ELSE ps.dict[key]
                    ELSE ~keyLine =>
                             /\ ps'.last_key = None
                             /\ ps'.dict = ps.dict]_vars

\* An indented line has been appended to the value of the key "a", and
\* a second indented line, after a line that is neither, has not.
C32_Witness ==
    /\ ps.returned
    /\ Len(ps.yielded) = 1
    /\ ps.yielded[1] = [key \in {<<"a">>} |-> <<"#", " ", "#">>]
    /\ ps.last_key = None
    /\ ps.terminate = "empty"

-----------------------------------------------------------------------------
(* Claims about prune_localdb and list_snapshots.                          *)

\* The rows of a scheme in a snapshots table.
OfScheme(rows, scheme) == {r \in rows : r.scheme = scheme}

\* C33 as stated: after prune_localdb(config, scheme) the most recent
\* snapshot that the scheme had before the call is still in snapshots, and
\* when the scheme had at most one snapshot nothing has been deleted.
C33_KeepsMostRecentOfScheme ==
    pr.op = "prune_localdb" =>
        LET mine == OfScheme(pr.before, pr.scheme)
        IN  /\ \A r \in mine :
                   (\A other \in mine : other.name <= r.name) =>
                       r \in snapshots
            /\ Cardinality(mine) <= 1 => snapshots = pr.before

\* What the code keeps: the snapshot with the greatest name of all
\* schemes, and every snapshot of another scheme; and with at most one
\* snapshot in the whole table nothing is deleted.
C33_KeepsMostRecentOfAll ==
    pr.op = "prune_localdb" =>
        /\ \A r \in pr.before :
               (\A other \in pr.before : other.name <= r.name) =>
                   r \in snapshots
        /\ \A r \in pr.before : r.scheme # pr.scheme => r \in snapshots
        /\ snapshots \subseteq pr.before
        /\ Cardinality(pr.before) <= 1 => snapshots = pr.before

\* C34 as stated: list_snapshots(scheme) returns exactly the names of the
\* snapshots of the scheme, in sorted order.
C34_NamesOfSchemeOnly ==
    pr.op = "list_snapshots" =>
        /\ {pr.list[i] : i \in 1..Len(pr.list)}
               = {r.name : r \in OfScheme(pr.before, pr.scheme)}
        /\ \A i, j \in 1..Len(pr.list) : i < j => pr.list[i] < pr.list[j]

\* What the code returns: the names of all snapshots, in sorted order.
C34_NamesOfAllSchemes ==
    pr.op = "list_snapshots" =>
        /\ {pr.list[i] : i \in 1..Len(pr.list)} = {r.name : r \in pr.before}
        /\ \A i, j \in 1..Len(pr.list) : i < j => pr.list[i] < pr.list[j]

-----------------------------------------------------------------------------
(* Claims about the URI escaping.                                          *)

\* C35: the decoding of the encoding of a byte string is the byte string;
\* the encoding has one character, the byte itself, for every byte
\* strictly between "+" and DEL other than "@", and for every other byte
\* three: "%" and two hexadecimal digits in lower case, so that it holds
\* "%" only where an escape starts.
C35_RoundTrip ==
    /\ uri.op = "uri_decode_raw" => uri.decoded = uri.bytes
    /\ uri.op \in {"uri_encode_raw", "uri_decode_raw"} =>
           LET literal == {i \in 1..Len(uri.bytes) :
                              /\ uri.bytes[i] > 43 /\ uri.bytes[i] < 127
                              /\ uri.bytes[i] # 64}
               Start(i) == i + 2 * Cardinality({j \in 1..(i - 1) :
                                                   j \notin literal})
           IN  /\ Len(uri.encoded)
                      = 3 * Len(uri.bytes) - 2 * Cardinality(literal)
               /\ \A i \in 1..Len(uri.bytes) :
                      IF i \in literal
                      THEN uri.encoded[Start(i)] = uri.bytes[i]
                      ELSE /\ uri.encoded[Start(i)] = 37
                           /\ \A k \in 1..2 :
                                  uri.encoded[Start(i) + k]
                                      \in (48..57) \cup (97..102)

\* The bytes "%25" have gone through both functions, as "%2525".
C35_Witness ==
    /\ uri.op = "uri_decode_raw"
    /\ uri.bytes = <<37, 50, 53>>
    /\ uri.encoded = <<37, 50, 53, 50, 53>>

\* A space and the byte e9 have gone through both, as "%20%e9".
C35_WitnessHighByte ==
    /\ uri.op = "uri_decode_raw"
    /\ uri.bytes = <<32, 233>>
    /\ uri.encoded = <<37, 50, 48, 37, 101, 57>>

-----------------------------------------------------------------------------
(* More claims about the segment cleaner.                                  *)

\* C36: after balance_expired_objects, of any two expired rows of
\* block_index the one of the greater age (now - timestamp, a timestamp
\* in the future counting as now) has the greater or the same bucket
\* number.
C36_BucketsMonotoneInAge ==
    Balanced_after =>
        \A i, j \in 1..Len(cl.block_index) :
            LET older == cl.block_index[i]
                younger == cl.block_index[j]
                AgeOf(row) == IF row.timestamp > 0 THEN 0
                              ELSE 0 - row.timestamp
            IN  (/\ older.expired # NULL
                 /\ younger.expired # NULL
                 /\ AgeOf(older) > AgeOf(younger)) =>
                    older.expired >= younger.expired

\* A balancing has put rows of three ages into three buckets, the oldest
\* into the last, and two rows of different ages into one bucket.
C36_Witness ==
    /\ Balanced_after
    /\ \E i, j, k \in 1..Len(cl.block_index) :
           /\ cl.block_index[i].timestamp < cl.block_index[j].timestamp
           /\ cl.block_index[j].timestamp < cl.block_index[k].timestamp
           /\ cl.block_index[i].expired = 2
           /\ cl.block_index[j].expired = 1
           /\ cl.block_index[k].expired = 0

\* A balancing has left two expired rows of different ages in one bucket.
C36_WitnessSameBucket ==
    /\ Balanced_after
    /\ Len(cl.cutoffs) > 1
    /\ \E i, j \in 1..Len(cl.block_index) :
           /\ cl.block_index[i].timestamp < cl.block_index[j].timestamp
           /\ cl.block_index[j].timestamp <= 0
           /\ cl.block_index[i].expired # NULL
           /\ cl.block_index[i].expired = cl.block_index[j].expired


\* get_segment_cleaning_list has just returned: the segments of its list.
JustListed ==
    IF cl.call.op = "get_segment_cleaning_list"
    THEN {cl.list[i].segmentid : i \in 1..Len(cl.list)}
    ELSE {}

\* C37: once mark_segment_expired(s) has been applied, no later call of
\* get_segment_cleaning_list returns segment s.
C37_MarkedNeverListedAgain == JustListed \cap cl.marked = {}

\* C37 on a database with a snapshot (the snapshots table does not
\* change between the calls): a segment marked is in no later cleaning
\* list.
C37_MarkedWithSnapshotNeverListedAgain ==
    cl.snapshots # {} => JustListed \cap cl.marked = {}

\* The marking of a segment with no snapshot in the database leaves the
\* row of the segment with expire_time NULL, and the next call of
\* get_segment_cleaning_list has returned the segment.
C37_WitnessListedAgain ==
    /\ cl.snapshots = {}
    /\ 1 \in JustListed
    /\ 1 \in cl.marked
    /\ cl.segments[1].expire_time = NULL


-----------------------------------------------------------------------------
(* More claims about the extraction cache.                                 *)

\* The segments with a directory in the extraction cache.
CachedDirs == {sg \in DOMAIN cache : cache[sg] # NoDir}

\* C38: after any sequence of load_object calls, failed ones included,
\* the segments with a directory in the extraction cache are the segments
\* of the LRU list.
C38_DirectoriesAreLruList == CachedDirs = Elements(_lru_list)

\* C38, the half that holds: every segment of the LRU list has a
\* directory in the extraction cache.
C38_LruListHasDirectory == Elements(_lru_list) \subseteq CachedDirs

\* A load of a segment that is not on the backend has left an empty
\* directory that is not in the LRU list, and a later load of the same
\* segment has failed on it.
C38_WitnessOrphanDirectory ==
    /\ cache[SecondSegment] = {}
    /\ SecondSegment \notin Elements(_lru_list)
    /\ parse_ref(req).segment = SecondSegment
    /\ res = Raise("CacheError")


-----------------------------------------------------------------------------
(* More claims about the traversal of the metadata log.                    *)

\* An object of the store names itself, or names an object that names it.
Names(i, j) == \E pos \in 1..Len(md.objects[i]) : md.objects[i][pos] = Ref(j)
Cyclic ==
    \E i \in 1..Len(md.objects) :
        \/ Names(i, i)
        \/ \E j \in 1..Len(md.objects) : Names(i, j) /\ Names(j, i)

\* C39: on a store whose references may form a cycle, every traversal
\* of read_metadata and of MetadataItem.data comes to an end: it is
\* exhausted after finitely many elements, or it fails with
\* RecursionTooDeep.
C39_TraversalEnds == <>(md.status \in {"done", "RecursionTooDeep"})

\* A traversal of a store with a cycle has followed the cycle, yielded
\* elements on the way, and failed with RecursionTooDeep on a stack of
\* MAX_RECURSION_DEPTH lists.
C39_Witness ==
    /\ Cyclic
    /\ md.status = "RecursionTooDeep"
    /\ Len(md.stack) = MAX_RECURSION_DEPTH
    /\ md.yielded # <<>>

\* An object whose last element names the object itself: the lists the
\* traversal has emptied are still on the stack when the depth is tested.
C39_WitnessTailReference ==
    /\ md.objects[1] = <<Ref(1)>>
    /\ md.status = "RecursionTooDeep"
    /\ \A k \in 1..Len(md.stack) : md.stack[k] = <<>>

\* A traversal of a store with a cycle that the root does not reach is
\* exhausted.
C39_WitnessCycleNotReached ==
    /\ Cyclic
    /\ md.status = "done"
    /\ md.yielded # <<>>


-----------------------------------------------------------------------------
(* More claims about the version gate.                                     *)

\* C40: a Format value is accepted only if parse_metadata_version gives
\* a non-empty version tuple for it that is not greater than (0, 11); a
\* value that does not match the version grammar is not accepted.
C40_UnparseableNotAccepted ==
    ver.status = "accepted" =>
        /\ parse_metadata_version(ver.format) # <<>>
        /\ ~GreaterTuple(parse_metadata_version(ver.format), FORMAT_VERSION)

\* C40, the half that holds: no accepted Format value has a version
\* greater than (0, 11).
C40_AcceptedNotGreater ==
    ver.status = "accepted" =>
        ~GreaterTuple(parse_metadata_version(ver.format), FORMAT_VERSION)

\* A Format value that names another system, for which
\* parse_metadata_version returns the empty tuple, was accepted.
C40_WitnessUnparseableAccepted ==
    /\ ver.format = [system |-> "Other", components |-> <<<<1, 2>>>>]
    /\ parse_metadata_version(ver.format) = <<>>
    /\ ver.status = "accepted"

============================================================================
